---------------------------- MODULE Spec2Model ----------------------------
(***************************************************************************)
(* A model of the PanScience chat backend (backend/main.py and the stores  *)
(* and services under backend/services).                                    *)
(*                                                                          *)
(* Values.  Python's Optional[float] and the loosely typed segment fields   *)
(* are records [k, v]: k is "none" (None / absent), "num" (a number, v its  *)
(* value in seconds) or "bad" (a value float() rejects).  An effective      *)
(* window end is "num" or "inf".  Request ids are [k, v] with k "none",     *)
(* "empty" (the empty string) or "oid" (a non-empty id string; v names the  *)
(* object, stored objects being numbered 1, 2, ... in creation order).      *)
(*                                                                          *)
(* Texts.  A chat message is a sequence of one-character strings.  A        *)
(* segment text, a document content and a rendered context are run-length   *)
(* strings: sequences of runs <<c, n>> (n copies of the character c, n > 0, *)
(* adjacent runs of different characters), so that the program's real       *)
(* character budgets (50,000 / 100,000 / 120,000) are computed with.        *)
(***************************************************************************)
EXTENDS Integers, Sequences, FiniteSets, TLC

VARIABLES
    conversations,  \* the conversations collection, in insertion order
    messages,       \* the messages collection, in insertion order
    transcripts,    \* the media_transcripts collection
    documents,      \* the parsed_documents collection
    now,            \* the clock conversation_store._now() reads
    requests,       \* the requests being handled
    nrequests,      \* how many requests have been received
    tasks,          \* the background title tasks
    call,           \* the last request to another endpoint (or the
                    \* arguments of a call of a pure function)
    ret             \* the response to it (or what the call returned)

dbvars == <<conversations, messages, transcripts, documents, now>>
sysvars == <<conversations, messages, transcripts, documents, now,
             requests, nrequests, tasks>>
fnvars == <<call, ret>>
vars == <<conversations, messages, transcripts, documents, now,
          requests, nrequests, tasks, call, ret>>

----------------------------------------------------------------------------
(* Bounds of the model *)

MaxTime == 2
MaxSegs == 1

----------------------------------------------------------------------------
(* Optional and loosely typed values *)

None == [k |-> "none", v |-> 0]
Num(n) == [k |-> "num", v |-> n]
Bad == [k |-> "bad", v |-> 0]
Inf == [k |-> "inf", v |-> 0]

\* Python truthiness of an Optional[float]: None and 0.0 are falsy.
Truthy(x) ==
    x.k = "bad" \/ (x.k = "num" /\ x.v # 0)

----------------------------------------------------------------------------
(* Run-length strings *)

WhiteSpace == {" ", "\t", "\n", "\r"}

RECURSIVE StrLen(_)
StrLen(s) ==
    IF s = <<>> THEN 0 ELSE Head(s)[2] + StrLen(Tail(s))

\* s + t
Cat(s, t) ==
    IF s = <<>> THEN t
    ELSE IF t = <<>> THEN s
    ELSE IF s[Len(s)][1] = t[1][1]
         THEN SubSeq(s, 1, Len(s) - 1)
                \o <<  <<t[1][1], s[Len(s)][2] + t[1][2]>>  >>
                \o Tail(t)
         ELSE s \o t

RECURSIVE FromChars(_)
FromChars(cs) ==
    IF cs = <<>> THEN <<>>
    ELSE Cat(<< <<Head(cs), 1>> >>, FromChars(Tail(cs)))

\* s[:n]
RECURSIVE Take(_, _)
Take(s, n) ==
    IF s = <<>> \/ n <= 0 THEN <<>>
    ELSE IF Head(s)[2] >= n THEN << <<Head(s)[1], n>> >>
    ELSE <<Head(s)>> \o Take(Tail(s), n - Head(s)[2])

RECURSIVE LStrip(_)
LStrip(s) ==
    IF s # <<>> /\ Head(s)[1] \in WhiteSpace THEN LStrip(Tail(s)) ELSE s

RECURSIVE RStrip(_)
RStrip(s) ==
    IF s # <<>> /\ s[Len(s)][1] \in WhiteSpace
    THEN RStrip(SubSeq(s, 1, Len(s) - 1))
    ELSE s

\* str.strip()
StripStr(s) == RStrip(LStrip(s))

\* str(x or ""): a missing text is the empty string
TextOf(x) ==
    IF x.k = "none" THEN <<>> ELSE x.v

Txt(s) == [k |-> "str", v |-> s]

----------------------------------------------------------------------------
(* Timestamp rendering *)

DigitChars == <<"0", "1", "2", "3", "4", "5", "6", "7", "8", "9">>

RECURSIVE Decimal(_)
Decimal(n) ==
    IF n < 10 THEN <<DigitChars[n + 1]>>
    ELSE Decimal(n \div 10) \o <<DigitChars[(n % 10) + 1]>>

\* Mutant: no zero padding.
Pad2_NoPad(n) == Decimal(n)

\* f"{n:02d}"
Pad2(n) ==
    IF n < 10 THEN <<"0">> \o Decimal(n) ELSE Decimal(n)

_seconds_to_hms(seconds) ==
    LET sec == IF seconds < 0 THEN 0 ELSE seconds
        h == sec \div 3600
        m == (sec % 3600) \div 60
        s == sec % 60
    IN  FromChars(Pad2(h) \o <<":">> \o Pad2(m) \o <<":">> \o Pad2(s))

----------------------------------------------------------------------------
(* The transcript windower of the chat endpoint *)

\* float(start_time) if start_time is not None else 0.0
WindowStart(start_time) ==
    IF start_time.k # "none" THEN start_time.v ELSE 0

\* Mutant: "end_time or inf", which takes 0.0 for no end.
WindowEnd_OrInf(end_time) ==
    IF Truthy(end_time) THEN Num(end_time.v) ELSE Inf

\* float(end_time) if end_time is not None else float("inf")
WindowEnd(end_time) ==
    IF end_time.k # "none" THEN Num(end_time.v) ELSE Inf

Geq(b, st) == b >= st
Leq(a, et) == et.k = "inf" \/ a <= et.v

\* The try block of the loop: float() raises on a value it cannot coerce.
SegRaises(s) ==
    s.start.k = "bad" \/ s.end.k = "bad"

\* a = float(s.get("start") or 0.0)
SegA(s) ==
    IF Truthy(s.start) THEN s.start.v ELSE 0

\* b = float(s.get("end") or a)
SegB(s) ==
    IF Truthy(s.end) THEN s.end.v ELSE SegA(s)

\* txt = str(s.get("text") or "").strip()
SegTxt(s) == StripStr(TextOf(s.text))

\* Mutant: containment in the window instead of overlap with it.
InWindow_Containment(a, b, st, et) ==
    Geq(a, st) /\ Leq(b, et)

\* if b >= st and a <= et
InWindow(a, b, st, et) ==
    Geq(b, st) /\ Leq(a, et)

RECURSIVE Chosen(_, _, _)
Chosen(segments, st, et) ==
    IF segments = <<>> THEN <<>>
    ELSE LET s == Head(segments)
             rest == Chosen(Tail(segments), st, et)
         IN  IF SegRaises(s) THEN rest
             ELSE IF SegTxt(s) = <<>> THEN rest
             ELSE IF InWindow(SegA(s), SegB(s), st, et)
                  THEN <<[start |-> SegA(s), end |-> SegB(s), text |-> SegTxt(s)]>> \o rest
                  ELSE rest

\* f"[{_seconds_to_hms(a)} - {_seconds_to_hms(b)}] {txt}"
Line(a, b, txt) ==
    Cat(FromChars(<<"[">>),
    Cat(_seconds_to_hms(a),
    Cat(FromChars(<<" ", "-", " ">>),
    Cat(_seconds_to_hms(b),
    Cat(FromChars(<<"]", " ">>), txt)))))

\* Mutant: the lines are joined last to first.
RECURSIVE JoinLines_Reversed(_)
JoinLines_Reversed(lines) ==
    IF lines = <<>> THEN <<>>
    ELSE IF Len(lines) = 1 THEN lines[1]
    ELSE Cat(JoinLines_Reversed(Tail(lines)), Cat(FromChars(<<"\n">>), lines[1]))

\* "\n".join(lines)
RECURSIVE JoinLines(_)
JoinLines(lines) ==
    IF lines = <<>> THEN <<>>
    ELSE IF Len(lines) = 1 THEN lines[1]
    ELSE Cat(lines[1], Cat(FromChars(<<"\n">>), JoinLines(Tail(lines))))

ContextLimit == 120000

\* Mutant: the window is ignored, every usable segment is rendered.
_build_transcript_context_Unwindowed(segments, start_time, end_time) ==
    LET chosen == Chosen(segments, 0, Inf)
        lines == [i \in 1..Len(chosen) |->
                    Line(chosen[i].start, chosen[i].end, chosen[i].text)]
    IN  IF chosen = <<>> THEN <<>>
        ELSE Take(JoinLines(lines), ContextLimit)

_build_transcript_context(segments, start_time, end_time) ==
    LET st == WindowStart(start_time)
        et == WindowEnd(end_time)
        chosen == Chosen(segments, st, et)
        lines == [i \in 1..Len(chosen) |->
                    Line(chosen[i].start, chosen[i].end, chosen[i].text)]
    IN  IF chosen = <<>> THEN <<>>
        ELSE Take(JoinLines(lines), ContextLimit)


----------------------------------------------------------------------------
(* The windowing and rendering of the media_answer endpoint *)

\* float(start_t or 0.0)
MediaWindowStart(start_t) ==
    IF Truthy(start_t) THEN start_t.v ELSE 0

\* float(end_t) if end_t is not None else float("inf")
MediaWindowEnd(end_t) ==
    IF end_t.k # "none" THEN Num(end_t.v) ELSE Inf

MediaWindowed(start_t, end_t) ==
    start_t.k # "none" \/ end_t.k # "none"

\* float(s.get("end") or 0.0) >= st and float(s.get("start") or 0.0) <= et
MediaKeeps(s, st, et) ==
    /\ Geq(IF Truthy(s.end) THEN s.end.v ELSE 0, st)
    /\ Leq(IF Truthy(s.start) THEN s.start.v ELSE 0, et)

\* The comprehension has no try: float() of a bad end raises, and so does
\* float() of a bad start when the left conjunct let the evaluation reach it.
MediaFilterRaises(segments, st, et) ==
    \E i \in 1..Len(segments) :
        /\ \A j \in 1..(i - 1) :
              segments[j].end.k # "bad" /\
              (Geq(IF Truthy(segments[j].end) THEN segments[j].end.v ELSE 0, st)
                  => segments[j].start.k # "bad")
        /\ \/ segments[i].end.k = "bad"
           \/ /\ Geq(IF Truthy(segments[i].end) THEN segments[i].end.v ELSE 0, st)
              /\ segments[i].start.k = "bad"

RECURSIVE MediaFilter(_, _, _)
MediaFilter(segments, st, et) ==
    IF segments = <<>> THEN <<>>
    ELSE IF MediaKeeps(Head(segments), st, et)
         THEN <<Head(segments)>> \o MediaFilter(Tail(segments), st, et)
         ELSE MediaFilter(Tail(segments), st, et)

RECURSIVE MediaLines(_)
MediaLines(segments) ==
    IF segments = <<>> THEN <<>>
    ELSE LET s == Head(segments)
             rest == MediaLines(Tail(segments))
         IN  IF SegRaises(s) THEN rest
             ELSE IF SegTxt(s) = <<>> THEN rest
             ELSE <<[start |-> SegA(s), end |-> SegB(s), text |-> SegTxt(s)]>> \o rest

\* media_answer from the fetched segments to the context of its prompt:
\* status "ok", "400" (no segment left) or "500" (an exception nothing handles).
MediaContext(segments, start_t, end_t) ==
    LET windowed == MediaWindowed(start_t, end_t)
        st == MediaWindowStart(start_t)
        et == MediaWindowEnd(end_t)
        raises == windowed /\ MediaFilterRaises(segments, st, et)
        kept == IF windowed /\ ~raises THEN MediaFilter(segments, st, et) ELSE segments
        chosen == MediaLines(kept)
        lines == [i \in 1..Len(chosen) |->
                    Line(chosen[i].start, chosen[i].end, chosen[i].text)]
        context == JoinLines(lines)
    IN  IF raises
        THEN [status |-> "500", windowed |-> windowed, st |-> st, et |-> et,
              chosen |-> <<>>, context |-> <<>>]
        ELSE IF kept = <<>>
        THEN [status |-> "400", windowed |-> windowed, st |-> st, et |-> et,
              chosen |-> <<>>, context |-> <<>>]
        ELSE [status |-> "ok", windowed |-> windowed, st |-> st, et |-> et,
              chosen |-> chosen,
              context |-> IF StrLen(context) > ContextLimit
                          THEN Take(context, ContextLimit) ELSE context]

----------------------------------------------------------------------------
(* The windower as a function: its arguments drawn from bounded sets *)

TimeOpts == {None} \cup {Num(t) : t \in 0..MaxTime}
FieldOpts == TimeOpts \cup {Bad}
TextOpts == {None,
             Txt(FromChars(<<" ", " ">>)),
             Txt(FromChars(<<" ", "h", "i", "\n">>))}
Segments == [start : FieldOpts, end : FieldOpts, text : TextOpts]
SegLists == UNION {[1..n -> Segments] : n \in 0..MaxSegs}

NoRet == [fn |-> "none"]

\* The server as started: empty collections, nothing in flight.
SysIdle ==
    /\ conversations = <<>>
    /\ messages = <<>>
    /\ transcripts = <<>>
    /\ documents = <<>>
    /\ now = 1
    /\ requests = <<>>
    /\ nrequests = 0
    /\ tasks = <<>>

InitWindow ==
    /\ SysIdle
    /\ call \in [segments : SegLists, start_time : TimeOpts, end_time : TimeOpts]
    /\ ret = NoRet

\* chat's call of _build_transcript_context, its locals kept in ret
BuildTranscriptContext ==
    /\ ret.fn = "none"
    /\ ret' = [fn |-> "build",
               status |-> "ok",
               windowed |-> TRUE,
               st |-> WindowStart(call.start_time),
               et |-> WindowEnd(call.end_time),
               chosen |-> Chosen(call.segments, WindowStart(call.start_time),
                                 WindowEnd(call.end_time)),
               context |-> _build_transcript_context(call.segments,
                                 call.start_time, call.end_time)]
    /\ UNCHANGED <<call, sysvars>>

\* media_answer's windowing and rendering of the same arguments
MediaAnswerContext ==
    /\ ret.fn = "none"
    /\ ret' = [fn |-> "media"] @@ MediaContext(call.segments, call.start_time,
                                               call.end_time)
    /\ UNCHANGED <<call, sysvars>>

NextWindow == BuildTranscriptContext \/ MediaAnswerContext

SpecWindow == InitWindow /\ [][NextWindow]_vars

----------------------------------------------------------------------------
(* Claims about the windower *)

HasVisibleChar(x) ==
    x.k = "str" /\ \E i \in 1..Len(x.v) : x.v[i][1] \notin WhiteSpace

\* A segment the rendering can use: numbers (or nothing) for start and end,
\* and a text that is not blank.
Usable(s) ==
    s.start.k # "bad" /\ s.end.k # "bad" /\ HasVisibleChar(s.text)

\* The start and end a segment is windowed and rendered with: a missing or
\* zero start counts as 0, a missing or zero end as the start.
EffStart(s) == IF s.start.k = "num" THEN s.start.v ELSE 0
EffEnd(s) == IF s.end.k = "num" /\ s.end.v # 0 THEN s.end.v ELSE EffStart(s)

C1_Kept(s) ==
    /\ Usable(s)
    /\ EffEnd(s) >= ret.st
    /\ (ret.et.k = "inf" \/ EffStart(s) <= ret.et.v)

\* C1 (as amended): _build_transcript_context includes a segment with usable
\* text if and only if its end >= st and its start <= et, a missing or zero
\* start counting as 0 and a missing or zero end counting as the segment's
\* start; an included segment keeps these start and end values, whatever the
\* window (it is never split or clipped), and the given order is kept.
C1_OverlapInclusion ==
    ret.fn = "build" =>
        LET kept == SelectSeq(call.segments, C1_Kept)
        IN  /\ Len(ret.chosen) = Len(kept)
            /\ \A i \in 1..Len(kept) :
                 /\ ret.chosen[i].start = EffStart(kept[i])
                 /\ ret.chosen[i].end = EffEnd(kept[i])
                 /\ ret.chosen[i].text = StripStr(kept[i].text.v)

\* A segment that straddles the start of the window is included whole.
C1_Witness ==
    /\ ret.fn = "build"
    /\ Len(call.segments) = 1
    /\ call.segments[1].start = Num(0)
    /\ call.segments[1].end = Num(2)
    /\ call.start_time = Num(1)
    /\ call.end_time = Num(1)
    /\ Len(ret.chosen) = 1
    /\ ret.chosen[1].start = 0
    /\ ret.chosen[1].end = 2

C1_RawKept(s) ==
    /\ Usable(s)
    /\ s.end.v >= ret.st
    /\ (ret.et.k = "inf" \/ s.start.v <= ret.et.v)

\* C1 as stated: inclusion is decided by, and the segment rendered with, the
\* segment's own stored start and end.
C1_AsStated ==
    (/\ ret.fn = "build"
     /\ \A i \in 1..Len(call.segments) :
          call.segments[i].start.k = "num" /\ call.segments[i].end.k = "num")
    =>  LET kept == SelectSeq(call.segments, C1_RawKept)
        IN  /\ Len(ret.chosen) = Len(kept)
            /\ \A i \in 1..Len(kept) :
                 /\ ret.chosen[i].start = kept[i].start.v
                 /\ ret.chosen[i].end = kept[i].end.v

\* C2 (as amended): the effective window is st = start_time, or 0 when
\* start_time is null, and et = end_time, or +infinity when end_time is null;
\* a zero end_time is a bound like any other (et = 0), so such a request
\* keeps only segments that start at 0, unlike a request with no end_time.
C2_EffectiveWindow ==
    (ret.fn \in {"build", "media"} /\ ret.windowed) =>
        /\ ret.st = (IF call.start_time.k = "num" THEN call.start_time.v ELSE 0)
        /\ ret.et = (IF call.end_time.k = "num" THEN Num(call.end_time.v) ELSE Inf)
        /\ (call.end_time = Num(0) =>
              \A i \in 1..Len(ret.chosen) : ret.chosen[i].start = 0)

\* end_time = 0 with a segment that starts later: the segment is filtered out.
C2_Witness ==
    /\ ret.fn = "build"
    /\ call.start_time = None
    /\ call.end_time = Num(0)
    /\ ret.et = Num(0)
    /\ Len(call.segments) = 1
    /\ Usable(call.segments[1])
    /\ call.segments[1].start = Num(1)
    /\ ret.chosen = <<>>

\* C2 as stated: et = end_time or +infinity, so that end_time = 0 filters
\* like no end_time at all.
C2_AsStated ==
    (ret.fn \in {"build", "media"} /\ ret.windowed) =>
        /\ ret.st = (IF Truthy(call.start_time) THEN call.start_time.v ELSE 0)
        /\ ret.et = (IF Truthy(call.end_time) THEN Num(call.end_time.v) ELSE Inf)
        /\ (ret.fn = "build" /\ call.end_time = Num(0) =>
              ret.context = _build_transcript_context(call.segments,
                                                      call.start_time, None))

----------------------------------------------------------------------------
(* Chat messages: sequences of one-character strings *)

UpperCase == <<"A", "B", "C", "D", "E", "F", "G", "H", "I", "J", "K", "L", "M",
               "N", "O", "P", "Q", "R", "S", "T", "U", "V", "W", "X", "Y", "Z">>
LowerCase == <<"a", "b", "c", "d", "e", "f", "g", "h", "i", "j", "k", "l", "m",
               "n", "o", "p", "q", "r", "s", "t", "u", "v", "w", "x", "y", "z">>

Range(f) == {f[i] : i \in DOMAIN f}

LowerChar(c) ==
    IF \E i \in 1..26 : UpperCase[i] = c
    THEN LowerCase[CHOOSE i \in 1..26 : UpperCase[i] = c]
    ELSE c

\* str.lower()
Lower(m) == [i \in 1..Len(m) |-> LowerChar(m[i])]

RECURSIVE MsgLStrip(_)
MsgLStrip(m) ==
    IF m # <<>> /\ Head(m) \in WhiteSpace THEN MsgLStrip(Tail(m)) ELSE m

RECURSIVE MsgRStrip(_)
MsgRStrip(m) ==
    IF m # <<>> /\ m[Len(m)] \in WhiteSpace
    THEN MsgRStrip(SubSeq(m, 1, Len(m) - 1))
    ELSE m

\* str.strip()
Strip(m) == MsgRStrip(MsgLStrip(m))

\* \d
IsDigit(c) == c \in Range(DigitChars)

\* \w
IsWordChar(c) ==
    c \in Range(DigitChars) \cup Range(UpperCase) \cup Range(LowerCase) \cup {"_"}

\* \b at offset p of t (between t[p] and t[p + 1])
WordBoundary(t, p) ==
    (p >= 1 /\ IsWordChar(t[p])) # (p < Len(t) /\ IsWordChar(t[p + 1]))

DigitsAt(t, p, n) ==
    p + n <= Len(t) /\ \A j \in 1..n : IsDigit(t[p + j])

CharAt(t, p, c) ==
    p + 1 <= Len(t) /\ t[p + 1] = c

\* \b\d{1,2}:\d{2}(?::\d{2})?\b matched from offset p
_TS_RE_match(t, p) ==
    /\ WordBoundary(t, p)
    /\ \E n \in {1, 2} :
         /\ DigitsAt(t, p, n)
         /\ CharAt(t, p + n, ":")
         /\ DigitsAt(t, p + n + 1, 2)
         /\ \/ /\ CharAt(t, p + n + 3, ":")
               /\ DigitsAt(t, p + n + 4, 2)
               /\ WordBoundary(t, p + n + 6)
            \/ WordBoundary(t, p + n + 3)

\* _TS_RE.search(text)
_TS_RE_search(t) ==
    \E p \in 0..Len(t) : _TS_RE_match(t, p)

kw_transcript == <<"t", "r", "a", "n", "s", "c", "r", "i", "p", "t">>
kw_recording == <<"r", "e", "c", "o", "r", "d", "i", "n", "g">>
kw_audio == <<"a", "u", "d", "i", "o">>
kw_video == <<"v", "i", "d", "e", "o">>
kw_clip == <<"c", "l", "i", "p">>
kw_attached == <<"a", "t", "t", "a", "c", "h", "e", "d">>
kw_the_file == <<"t", "h", "e", " ", "f", "i", "l", "e">>
kw_timestamp == <<"t", "i", "m", "e", "s", "t", "a", "m", "p">>
kw_timecode == <<"t", "i", "m", "e", "c", "o", "d", "e">>
kw_minute == <<"m", "i", "n", "u", "t", "e">>
kw_minutes == <<"m", "i", "n", "u", "t", "e", "s">>
kw_second == <<"s", "e", "c", "o", "n", "d">>
kw_seconds == <<"s", "e", "c", "o", "n", "d", "s">>

\* Mutant: one keyword of the tuple forgotten.
keywords_NoClip ==
    <<kw_transcript, kw_recording, kw_audio, kw_video, kw_attached,
      kw_the_file, kw_timestamp, kw_timecode, kw_minute, kw_minutes,
      kw_second, kw_seconds>>

keywords ==
    <<kw_transcript, kw_recording, kw_audio, kw_video, kw_clip, kw_attached,
      kw_the_file, kw_timestamp, kw_timecode, kw_minute, kw_minutes,
      kw_second, kw_seconds>>

\* k in text
Contains(k, text) ==
    \E p \in 0..(Len(text) - Len(k)) : SubSeq(text, p + 1, p + Len(k)) = k

_looks_transcript_related(message, start_time, end_time) ==
    IF start_time.k # "none" \/ end_time.k # "none" THEN TRUE
    ELSE LET text == Lower(Strip(message))
         IN  IF text = <<>> THEN FALSE
             ELSE IF _TS_RE_search(text) THEN TRUE
             ELSE \E i \in 1..Len(keywords) : Contains(keywords[i], text)

----------------------------------------------------------------------------
(* The heuristic as a function: messages are built from a few fragments *)

MaxFragments == 2

Fragments ==
    Range(keywords) \cup
    { <<" ">>, <<"\n">>, <<"x">>, <<"_">>, <<"7">>, <<":">>,
      <<"1", "2", ":", "3", "4">>, <<"5", ":", "0", "6">>, <<":", "5", "6">>,
      <<"C">>, <<"l", "i", "p">>, <<"t", "h", "e">>, <<"f", "i", "l", "e">>,
      <<"S", "E", "C", "O", "N", "D">> }

RECURSIVE Flatten(_)
Flatten(fs) ==
    IF fs = <<>> THEN <<>> ELSE Head(fs) \o Flatten(Tail(fs))

HeurMessages ==
    {Flatten(fs) : fs \in UNION {[1..n -> Fragments] : n \in 0..MaxFragments}}

\* Only the presence of a time matters to the heuristic.
HeurTimeOpts == {None, Num(0), Num(MaxTime)}

InitHeur ==
    /\ SysIdle
    /\ call \in [message : HeurMessages, start_time : HeurTimeOpts,
                  end_time : HeurTimeOpts]
    /\ ret = NoRet

LooksTranscriptRelated ==
    /\ ret.fn = "none"
    /\ ret' = [fn |-> "looks",
               value |-> _looks_transcript_related(call.message, call.start_time,
                                                   call.end_time)]
    /\ UNCHANGED <<call, sysvars>>

NextHeur == LooksTranscriptRelated

SpecHeur == InitHeur /\ [][NextHeur]_vars

----------------------------------------------------------------------------
(* Claims about the heuristic *)

ClockShapes ==
    { <<"d", ":", "d", "d">>, <<"d", "d", ":", "d", "d">>,
      <<"d", ":", "d", "d", ":", "d", "d">>,
      <<"d", "d", ":", "d", "d", ":", "d", "d">> }

Shape(t) ==
    [i \in 1..Len(t) |->
        IF t[i] \in {"0", "1", "2", "3", "4", "5", "6", "7", "8", "9"} THEN "d"
        ELSE IF t[i] = ":" THEN ":" ELSE "o"]

IsWordLike(c) ==
    \/ c \in {"0", "1", "2", "3", "4", "5", "6", "7", "8", "9", "_"}
    \/ \E i \in 1..26 : c = UpperCase[i] \/ c = LowerCase[i]

\* t holds a clock time with no word character right before or after it
HasClockTime(t) ==
    \E i \in 1..Len(t) : \E j \in i..Len(t) :
        /\ Shape(SubSeq(t, i, j)) \in ClockShapes
        /\ (i > 1 => ~IsWordLike(t[i - 1]))
        /\ (j < Len(t) => ~IsWordLike(t[j + 1]))

ThirteenKeywords ==
    {kw_transcript, kw_recording, kw_audio, kw_video, kw_clip, kw_attached,
     kw_the_file, kw_timestamp, kw_timecode, kw_minute, kw_minutes, kw_second,
     kw_seconds}

RECURSIVE IsPrefix(_, _)
IsPrefix(k, t) ==
    \/ k = <<>>
    \/ (t # <<>> /\ Head(k) = Head(t) /\ IsPrefix(Tail(k), Tail(t)))

RECURSIVE Occurs(_, _)
Occurs(k, t) ==
    IsPrefix(k, t) \/ (t # <<>> /\ Occurs(k, Tail(t)))

Blank(m) == \A i \in 1..Len(m) : m[i] \in {" ", "\t", "\n", "\r"}

\* C6: with start_time and end_time both null, _looks_transcript_related is
\* false for a message that is empty after trimming, and otherwise true if and
\* only if the lower-cased trimmed message holds a word-bounded clock time or
\* one of the thirteen keywords as a substring.
C6_HeuristicKeywords ==
    (ret.fn = "looks" /\ call.start_time = None /\ call.end_time = None) =>
        ret.value =
            (/\ ~Blank(call.message)
             /\ \/ HasClockTime(Lower(Strip(call.message)))
                \/ \E k \in ThirteenKeywords : Occurs(k, Lower(Strip(call.message))))

\* A message in capitals that holds a keyword, and nothing else that counts.
C6_Witness ==
    /\ ret.fn = "looks"
    /\ call.start_time = None
    /\ call.end_time = None
    /\ call.message = <<"C", "l", "i", "p">>
    /\ ret.value = TRUE

----------------------------------------------------------------------------
(* The stores *)

MaxConvs == 1
MaxTranscripts == 1
MaxDocs == 1
MaxRequests == 1

Users == {"u1", "u2"}

\* A non-empty id string; stored objects are numbered in creation order.
Oid(n) == [k |-> "oid", v |-> n]

Min(a, b) == IF a <= b THEN a ELSE b

\* Mutant: the query matches on _id alone.
OwnedIn_AnyOwner(coll, user_id, id) ==
    id.k = "oid" /\ id.v \in 1..Len(coll)

\* find_one({"_id": oid, "user_id": user_id}) finds something
OwnedIn(coll, user_id, id) ==
    /\ id.k = "oid"
    /\ id.v \in 1..Len(coll)
    /\ coll[id.v].user_id = user_id

\* conversation_store.get_conversation(...) is not None
get_conversation(user_id, conversation_id) ==
    /\ OwnedIn(conversations, user_id, conversation_id)
    /\ conversations[conversation_id.v].live

\* transcript_store.get_transcript(...) is not None
get_transcript(user_id, transcript_id) ==
    OwnedIn(transcripts, user_id, transcript_id)

\* document_store.get_document(...) is not None
get_document(user_id, document_id) ==
    OwnedIn(documents, user_id, document_id)

\* document_store.create_document: the collection after the insert
create_document(user_id, parsed) ==
    Append(documents, [user_id |-> user_id, content |-> parsed.content,
                       metadata |-> parsed.metadata])

\* transcript_store.create_transcript: the collection after the insert
create_transcript(user_id, segments) ==
    Append(transcripts, [user_id |-> user_id, segments |-> segments])

\* conversation_store.create_conversation: the collection after the insert
create_conversation(user_id, title) ==
    Append(conversations,
           [user_id |-> user_id, title |-> title, created_at |-> now,
            updated_at |-> now, live |-> TRUE])

\* Mutant: the message of the user is not stored.
append_message_insert_AssistantOnly(user_id, conversation_id, sender, text) ==
    IF sender = "user" THEN messages
    ELSE Append(messages,
                [user_id |-> user_id, conversation_id |-> conversation_id.v,
                 sender |-> sender, text |-> text, attachments |-> <<>>,
                 created_at |-> now])

\* conversation_store.append_message: the messages after insert_one
append_message_insert(user_id, conversation_id, sender, text) ==
    Append(messages,
           [user_id |-> user_id, conversation_id |-> conversation_id.v,
            sender |-> sender, text |-> text, attachments |-> <<>>,
            created_at |-> now])

\* conversation_store.append_message: the conversations after update_one
append_message_touch(user_id, conversation_id) ==
    [i \in DOMAIN conversations |->
        IF i = conversation_id.v /\ conversations[i].live
           /\ conversations[i].user_id = user_id
        THEN [conversations[i] EXCEPT !.updated_at = now]
        ELSE conversations[i]]

\* .sort("created_at", 1), stable: the message at place p of the result is
\* the one with p - 1 messages before it (an earlier created_at, or the same
\* created_at and an earlier insertion); messages already in that order
\* stay as they are
SortByCreatedAt(ms) ==
    LET n == Len(ms)
        Before(j, i) ==
            \/ ms[j].created_at < ms[i].created_at
            \/ ms[j].created_at = ms[i].created_at /\ j < i
        place == [i \in 1..n |-> 1 + Cardinality({j \in 1..n : Before(j, i)})]
        at == [p \in 1..n |-> CHOOSE i \in 1..n : place[i] = p]
    IN  IF \A j \in 1..(n - 1) : ms[j].created_at <= ms[j + 1].created_at
        THEN ms
        ELSE [p \in 1..n |-> ms[at[p]]]

\* conversation_store.list_messages
list_messages(user_id, conversation_id, limit) ==
    LET Mine(m) == m.conversation_id = conversation_id.v /\ m.user_id = user_id
        found == SortByCreatedAt(SelectSeq(messages, Mine))
    IN  SubSeq(found, 1, Min(limit, Len(found)))

\* .sort("updated_at", -1): a stable insertion sort, newest first
RECURSIVE InsertByUpdatedAt(_, _)
InsertByUpdatedAt(sorted, c) ==
    IF sorted = <<>> THEN <<c>>
    ELSE IF sorted[Len(sorted)].updated_at >= c.updated_at
         THEN Append(sorted, c)
         ELSE Append(InsertByUpdatedAt(SubSeq(sorted, 1, Len(sorted) - 1), c),
                     sorted[Len(sorted)])

RECURSIVE SortByUpdatedAt(_)
SortByUpdatedAt(cs) ==
    IF cs = <<>> THEN <<>>
    ELSE InsertByUpdatedAt(SortByUpdatedAt(SubSeq(cs, 1, Len(cs) - 1)),
                           cs[Len(cs)])

\* conversation_store.list_conversations
list_conversations(user_id, limit) ==
    LET Mine(c) == c.user_id = user_id /\ c.live
        found == SortByUpdatedAt(SelectSeq(conversations, Mine))
    IN  SubSeq(found, 1, Min(limit, Len(found)))

\* A collection whose objects are stored in the order of their created_at,
\* read with .sort("created_at", -1)
NewestFirst(coll) ==
    [i \in 1..Len(coll) |-> coll[Len(coll) + 1 - i]]

\* transcript_store.list_transcripts
list_transcripts(user_id, limit) ==
    LET Mine(t) == t.user_id = user_id
        found == NewestFirst(SelectSeq(transcripts, Mine))
    IN  SubSeq(found, 1, Min(limit, Len(found)))

\* document_store.list_documents
list_documents(user_id, limit) ==
    LET Mine(d) == d.user_id = user_id
        found == NewestFirst(SelectSeq(documents, Mine))
    IN  SubSeq(found, 1, Min(limit, Len(found)))

\* Mutant: delete_many filters by the conversation only.
delete_conversation_messages_AnyOwner(user_id, conversation_id) ==
    LET Others(m) == m.conversation_id # conversation_id.v
    IN  SelectSeq(messages, Others)

\* conversation_store.delete_conversation: the messages after delete_many
delete_conversation_messages(user_id, conversation_id) ==
    LET Others(m) == ~(m.conversation_id = conversation_id.v /\ m.user_id = user_id)
    IN  SelectSeq(messages, Others)

\* conversation_store.delete_conversation: the conversations after delete_one
delete_conversation_doc(user_id, conversation_id) ==
    [i \in DOMAIN conversations |->
        IF i = conversation_id.v /\ conversations[i].user_id = user_id
        THEN [conversations[i] EXCEPT !.live = FALSE]
        ELSE conversations[i]]

\* conversation_store.update_conversation_title: the conversations after
\* the update_one
update_conversation_title(user_id, conversation_id, title) ==
    [i \in DOMAIN conversations |->
        IF i = conversation_id.v /\ conversations[i].live
           /\ conversations[i].user_id = user_id
        THEN [conversations[i] EXCEPT !.title = title]
        ELSE conversations[i]]

\* Mutant: one more title counts as a placeholder.
Placeholders_OneMore == {"New Chat", "Chat", "Conversation", "My Title"}

Placeholders == {"New Chat", "Chat", "Conversation"}

\* Mutant: the update matches on _id and user_id alone.
update_conversation_title_if_placeholder_NoCheck(user_id, conversation_id, title) ==
    update_conversation_title(user_id, conversation_id, title)

\* conversation_store.update_conversation_title_if_placeholder: the
\* conversations after the conditional update_one
update_conversation_title_if_placeholder(user_id, conversation_id, title) ==
    [i \in DOMAIN conversations |->
        IF i = conversation_id.v /\ conversations[i].live
           /\ conversations[i].user_id = user_id
           /\ conversations[i].title \in Placeholders
        THEN [conversations[i] EXCEPT !.title = title]
        ELSE conversations[i]]

\* conversation_store.update_conversation_title_if_placeholder: what it
\* returns, res.modified_count == 1 (a matched document whose title already
\* is the new one is not modified)
update_conversation_title_if_placeholder_result(user_id, conversation_id, title) ==
    \E i \in DOMAIN conversations :
        /\ i = conversation_id.v
        /\ conversations[i].live
        /\ conversations[i].user_id = user_id
        /\ conversations[i].title \in Placeholders
        /\ conversations[i].title # title

----------------------------------------------------------------------------
(* Document parsing *)

ParseLimit == 100000

ParseMarker ==
    FromChars(
    <<"\n", "\n", "[", "C", "o", "n", "t", "e", "n", "t", " ", "t", "r",
      "u", "n", "c", "a", "t", "e", "d", " ", "d", "u", "e", " ", "t", "o",
      " ", "s", "i", "z", "e", ".", ".", ".", "]">>)

\* Mutant: the flag is set without looking at the length.
ParseTruncated_Always(content) == TRUE

\* len(content) > 100_000
ParseTruncated(content) ==
    StrLen(content) > ParseLimit

\* document_service.parse_document_bytes, from the text a parser extracted:
\* the content and the metadata of the dict it returns (truncated is TRUE
\* when the metadata has the key "truncated", which is then True)
parse_document_bytes(extracted) ==
    IF ParseTruncated(extracted)
    THEN [content |-> Cat(Take(extracted, ParseLimit), ParseMarker),
          metadata |-> [format |-> "Plain Text", truncated |-> TRUE]]
    ELSE [content |-> extracted,
          metadata |-> [format |-> "Plain Text", truncated |-> FALSE]]

\* A text of n characters
Filler(n) ==
    IF n = 0 THEN <<>> ELSE << <<"x", n>> >>

\* The texts a parser extracts from the uploads of the model
ExtractedTexts ==
    {Filler(50000), Filler(100000), Filler(100001)}

\* The segment lists the transcription service returns for the uploads of
\* the model: one short utterance, or two utterances whose rendering is
\* longer than the context budget.
Utterance(a, b, text) ==
    [start |-> Num(a), end |-> Num(b), text |-> Txt(text)]

TranscribedSegments ==
    { <<Utterance(0, 1, FromChars(<<"h", "i">>))>>,
      <<Utterance(0, 1, Filler(59978)), Utterance(1, 1, Filler(59978))>> }

----------------------------------------------------------------------------
(* The LLM service *)

\* The text the model replies with, stripped
Reply == <<"o", "k">>

DefaultSystemPrompt == "default"
DocumentSystemPrompt == "document"
TranscriptSystemPrompt == "transcript"

MaxHistoryMessages == 40

\* A prompt is the raw message, or one of the two templates around the
\* trimmed question and the grounding content.
RawPrompt(message) ==
    [template |-> "raw", question |-> message, content |-> <<>>,
     window |-> [shown |-> FALSE, st |-> 0, et |-> Inf]]

\* Mutant: no prompt counts as blank.
PromptBlank_Never(prompt) ==
    FALSE

\* not user_message or not str(user_message).strip(): only a raw prompt can
\* be blank, a template never is
PromptBlank(prompt) ==
    prompt.template = "raw" /\ Strip(prompt.question) = <<>>

\* list(history)[-max_history_messages:], blank texts skipped, an unknown
\* sender read as the user
LlmHistory(history) ==
    LET n == Len(history)
        trimmed == SubSeq(history, IF n > MaxHistoryMessages
                                   THEN n - MaxHistoryMessages + 1 ELSE 1, n)
        NotBlank(h) == Strip(h.text) # <<>>
        kept == SelectSeq(trimmed, NotBlank)
    IN  [i \in 1..Len(kept) |->
            [role |-> IF kept[i].sender = "assistant" THEN "assistant" ELSE "user",
             text |-> kept[i].text]]

NothingSent ==
    [system_prompt |-> "", history |-> <<>>, user_message |-> RawPrompt(<<>>)]

\* No call of the LLM service
NoLlm ==
    [raised |-> "", text |-> <<>>, llm_calls |-> 0, sent |-> NothingSent,
     error |-> ""]

\* chat_service.generate_chat_response_with_history.  first is "nokey" when
\* _get_llm() finds no credential, else what llm.invoke(msgs) does ("ok" or
\* "raise"), second what the fallback call in
\* the except branch does ("ok", "RuntimeError" or "Exception").
\* raised is "" for a return; llm_calls counts the invocations made.
generate_chat_response_with_history(history, user_message, system_prompt, first, second) ==
    LET sent == [system_prompt |-> system_prompt, history |-> LlmHistory(history),
                 user_message |-> user_message]
    IN  IF PromptBlank(user_message)
        THEN NoLlm
        ELSE IF first = "nokey"
        THEN [NoLlm EXCEPT !.raised = "RuntimeError",
                           !.error = "Missing GOOGLE_API_KEY in environment (.env)"]
        ELSE IF first = "ok"
        THEN [raised |-> "", text |-> Reply, llm_calls |-> 1, sent |-> sent,
              error |-> ""]
        ELSE IF second = "ok"
        THEN [raised |-> "", text |-> Reply, llm_calls |-> 2, sent |-> sent,
              error |-> ""]
        ELSE [raised |-> second, text |-> <<>>, llm_calls |-> 2, sent |-> sent,
              error |-> "llm error"]

LlmFirst == {"nokey", "ok", "raise"}
LlmSecond == {"ok", "RuntimeError", "Exception"}

----------------------------------------------------------------------------
(* /api/chat *)

DocContextLimit == 50000

DocMarker ==
    FromChars(
    <<"\n", "\n", "[", "C", "o", "n", "t", "e", "n", "t", " ", "t", "r",
      "u", "n", "c", "a", "t", "e", "d", " ", "f", "o", "r", " ", "c", "o",
      "n", "t", "e", "x", "t", " ", "w", "i", "n", "d", "o", "w", ".", ".",
      ".", "]">>)

\* Mutant: the content is cut one character late.
DocContent_OffByOne(content) ==
    IF StrLen(content) > DocContextLimit
    THEN Cat(Take(content, DocContextLimit + 1), DocMarker)
    ELSE content

\* if len(doc_content) > 50_000: doc_content = doc_content[:50_000] + marker
DocContent(content) ==
    IF StrLen(content) > DocContextLimit
    THEN Cat(Take(content, DocContextLimit), DocMarker)
    ELSE content

DocumentPrompt(message, content) ==
    [template |-> "document", question |-> Strip(message),
     content |-> DocContent(content),
     window |-> [shown |-> FALSE, st |-> 0, et |-> Inf]]

\* window = f" Time window: {st if st is not None else 0.0}s to
\*            {et if et is not None else 'end'}s."
TranscriptPrompt(message, context, start_time, end_time) ==
    [template |-> "transcript", question |-> Strip(message), content |-> context,
     window |-> [shown |-> start_time.k # "none" \/ end_time.k # "none",
                 st |-> IF start_time.k # "none" THEN start_time.v ELSE 0,
                 et |-> IF end_time.k # "none" THEN Num(end_time.v) ELSE Inf]]

\* bool(request.document_id), bool(request.transcript_id and ...)
Present(id) == id.k = "oid"

\* Mutant: a transcript_id alone selects the transcript.
UseTranscript_IdOnly(message, transcript_id, start_time, end_time) ==
    Present(transcript_id)

\* Mutant: the heuristic is asked even when a time window is given.
UseTranscript_MessageOnly(message, transcript_id, start_time, end_time) ==
    Present(transcript_id) /\ _looks_transcript_related(message, None, None)

UseTranscript(message, transcript_id, start_time, end_time) ==
    Present(transcript_id) /\ _looks_transcript_related(message, start_time, end_time)

\* Mutant: the transcript branch is tried first.
Selection_TranscriptFirst(use_document, use_transcript) ==
    IF use_transcript THEN "transcript"
    ELSE IF use_document THEN "document"
    ELSE "none"

\* if use_document: ... elif use_transcript: ... else: ...
Selection(use_document, use_transcript) ==
    IF use_document THEN "document"
    ELSE IF use_transcript THEN "transcript"
    ELSE "none"

NoException == [type |-> "", status |-> 0, detail |-> ""]
HTTPException(status, detail) ==
    [type |-> "HTTPException", status |-> status, detail |-> detail]

\* The body of the try block of chat: what it fetched, the prompt it built,
\* the reply of the LLM service, and the exception it ended with, if any.
ChatTry(user_id, history, message, transcript_id, document_id, start_time, end_time, first, second) ==
    LET use_transcript == UseTranscript(message, transcript_id, start_time, end_time)
        use_document == Present(document_id)
        selection == Selection(use_document, use_transcript)
        none == [selection |-> selection, fetched |-> {},
                 user_prompt |-> RawPrompt(<<>>), system_prompt |-> "",
                 llm |-> NoLlm, exc |-> NoException]
    IN  IF selection = "document"
        THEN IF ~get_document(user_id, document_id)
             THEN [none EXCEPT !.fetched = {"document"},
                               !.exc = HTTPException(404, "Document not found")]
             ELSE LET prompt == DocumentPrompt(message, documents[document_id.v].content)
                      llm == generate_chat_response_with_history(
                                 history, prompt, DocumentSystemPrompt, first, second)
                  IN  [selection |-> selection, fetched |-> {"document"},
                       user_prompt |-> prompt, system_prompt |-> DocumentSystemPrompt,
                       llm |-> llm,
                       exc |-> IF llm.raised = "" THEN NoException
                               ELSE [type |-> llm.raised, status |-> 0,
                                     detail |-> llm.error]]
        ELSE IF selection = "transcript"
        THEN IF ~get_transcript(user_id, transcript_id)
             THEN [none EXCEPT !.fetched = {"transcript"},
                               !.exc = HTTPException(404, "Transcript not found")]
             ELSE LET context == _build_transcript_context(
                                     transcripts[transcript_id.v].segments,
                                     start_time, end_time)
                      prompt == TranscriptPrompt(message, context, start_time, end_time)
                      llm == generate_chat_response_with_history(
                                 history, prompt, TranscriptSystemPrompt, first, second)
                  IN  IF context = <<>>
                      THEN [none EXCEPT !.fetched = {"transcript"},
                                        !.exc = HTTPException(400,
                                 "No transcript content in the requested time range")]
                      ELSE [selection |-> selection, fetched |-> {"transcript"},
                            user_prompt |-> prompt,
                            system_prompt |-> TranscriptSystemPrompt,
                            llm |-> llm,
                            exc |-> IF llm.raised = "" THEN NoException
                                    ELSE [type |-> llm.raised, status |-> 0,
                                          detail |-> llm.error]]
        ELSE LET prompt == RawPrompt(message)
                 llm == generate_chat_response_with_history(
                            history, prompt, DefaultSystemPrompt, first, second)
             IN  [selection |-> selection, fetched |-> {},
                  user_prompt |-> prompt, system_prompt |-> DefaultSystemPrompt,
                  llm |-> llm,
                  exc |-> IF llm.raised = "" THEN NoException
                          ELSE [type |-> llm.raised, status |-> 0,
                                detail |-> llm.error]]

\* except RuntimeError as e: 500, str(e)
\* except Exception as e: 500, f"Failed to generate response: {e}"
\* (HTTPException is an Exception and not a RuntimeError: the second handler
\* takes the HTTPExceptions the try block raises.)
ChatExcept(exc) ==
    IF exc.type = "RuntimeError"
    THEN [status |-> 500, wrapped |-> FALSE, detail |-> exc.detail]
    ELSE [status |-> 500, wrapped |-> TRUE, detail |-> exc.detail]

ChatMessages ==
    { <<>>, <<" ">>, <<"h", "i">>, <<"c", "l", "i", "p">> }

ConversationIds == {None} \cup {Oid(i) : i \in 1..MaxConvs}
TranscriptIds == {None} \cup {Oid(i) : i \in 1..MaxTranscripts}
DocumentIds == {None} \cup {Oid(i) : i \in 1..MaxDocs}
StartTimeOpts == {None, Num(0), Num(MaxTime)}
EndTimeOpts == {None, Num(MaxTime)}

\* A chat request as received: the fields of the grounding are read (and
\* here drawn) in the try block.
NewChat(user_id, message, conversation_id) ==
    [fn |-> "chat", user_id |-> user_id, message |-> message,
     conversation_id |-> conversation_id,
     conv |-> None, created_new |-> FALSE, history |-> <<>>, pc |-> "begin",
     transcript_id |-> None, document_id |-> None,
     start_time |-> None, end_time |-> None,
     selection |-> "", fetched |-> {}, user_prompt |-> RawPrompt(<<>>),
     system_prompt |-> "", llm_calls |-> 0, sent |-> NothingSent,
     response_text |-> <<>>, status |-> 0, wrapped |-> FALSE, detail |-> ""]

\* chat, to the end of its first await: the conversation is looked up, or
\* created with the placeholder title.
ChatStart(user_id, message, conversation_id) ==
    /\ LET req == NewChat(user_id, message, conversation_id)
       IN  IF Present(conversation_id)
           THEN /\ requests' = Append(requests,
                        IF get_conversation(user_id, conversation_id)
                        THEN [req EXCEPT !.conv = conversation_id, !.pc = "history"]
                        ELSE [req EXCEPT !.pc = "done", !.status = 404,
                                         !.detail = "Conversation not found"])
                /\ UNCHANGED <<conversations, now>>
           ELSE /\ Len(conversations) < MaxConvs
                /\ conversations' = create_conversation(user_id, "New Chat")
                /\ now' = now + 1
                /\ requests' = Append(requests,
                        [req EXCEPT !.conv = Oid(Len(conversations) + 1),
                                    !.created_new = TRUE, !.pc = "history"])
    /\ UNCHANGED <<messages, transcripts, documents, tasks, call, ret>>

\* One more request is received, while fewer than limit have been
Admit(limit) ==
    /\ nrequests < limit
    /\ nrequests' = nrequests + 1

\* POST /api/chat is received
ChatBegin(user_id, message, conversation_id) ==
    /\ Admit(MaxRequests)
    /\ ChatStart(user_id, message, conversation_id)

HistoryLimit == 200

\* Mutant: the history is read after the user message is appended.
ChatHistory_AfterAppend(i) ==
    /\ requests[i].fn = "chat"
    /\ requests[i].pc = "history"
    /\ messages' = append_message_insert(requests[i].user_id, requests[i].conv,
                                         "user", requests[i].message)
    /\ conversations' = append_message_touch(requests[i].user_id, requests[i].conv)
    /\ now' = now + 1
    /\ LET stored == list_messages(requests[i].user_id, requests[i].conv,
                                   HistoryLimit - 1)
           recent == Append(stored, [sender |-> "user", text |-> requests[i].message])
           NotBlank(m) == Strip(m.text) # <<>>
           kept == SelectSeq(recent, NotBlank)
       IN  requests' = [requests EXCEPT ![i].pc = "ground",
                        ![i].history = [j \in 1..Len(kept) |->
                            [sender |-> kept[j].sender, text |-> kept[j].text]]]
    /\ UNCHANGED <<transcripts, documents, nrequests, tasks, call, ret>>

\* recent = await list_messages(..., limit=200); history = [...]
ChatHistory(i) ==
    /\ requests[i].fn = "chat"
    /\ requests[i].pc = "history"
    /\ LET recent == list_messages(requests[i].user_id, requests[i].conv,
                                   HistoryLimit)
           NotBlank(m) == Strip(m.text) # <<>>
           kept == SelectSeq(recent, NotBlank)
       IN  requests' = [requests EXCEPT ![i].pc = "append_user",
                        ![i].history = [j \in 1..Len(kept) |->
                            [sender |-> kept[j].sender, text |-> kept[j].text]]]
    /\ UNCHANGED <<dbvars, nrequests, tasks, call, ret>>

\* await append_message(..., sender="user", text=request.message, ...)
ChatAppendUser(i) ==
    /\ requests[i].fn = "chat"
    /\ requests[i].pc = "append_user"
    /\ messages' = append_message_insert(requests[i].user_id, requests[i].conv,
                                         "user", requests[i].message)
    /\ conversations' = append_message_touch(requests[i].user_id, requests[i].conv)
    /\ now' = now + 1
    /\ requests' = [requests EXCEPT ![i].pc = "ground"]
    /\ UNCHANGED <<transcripts, documents, nrequests, tasks, call, ret>>

\* The try block and its except clauses
ChatGround(i, transcript_id, document_id, start_time, end_time, first, second) ==
    /\ requests[i].fn = "chat"
    /\ requests[i].pc = "ground"
    /\ LET c == requests[i]
           t == ChatTry(c.user_id, c.history, c.message, transcript_id,
                        document_id, start_time, end_time, first, second)
           seen == [c EXCEPT !.transcript_id = transcript_id,
                             !.document_id = document_id,
                             !.start_time = start_time,
                             !.end_time = end_time,
                             !.selection = t.selection,
                             !.fetched = t.fetched,
                             !.user_prompt = t.user_prompt,
                             !.system_prompt = t.system_prompt,
                             !.llm_calls = t.llm.llm_calls,
                             !.sent = t.llm.sent]
       IN  requests' = [requests EXCEPT ![i] =
                IF t.exc.type = ""
                THEN [seen EXCEPT !.response_text = t.llm.text,
                                  !.pc = "append_assistant"]
                ELSE [seen EXCEPT !.status = ChatExcept(t.exc).status,
                                  !.wrapped = ChatExcept(t.exc).wrapped,
                                  !.detail = ChatExcept(t.exc).detail,
                                  !.pc = "done"]]
    /\ UNCHANGED <<dbvars, nrequests, tasks, call, ret>>

NewTitleTask(c) ==
    [user_id |-> c.user_id, conversation_id |-> c.conv,
     first_user_message |-> c.message,
     first_assistant_message |-> c.response_text,
     pc |-> "generate", title |-> "", modified |-> FALSE]

\* Mutant: the title task is created for every chat that was answered.
ChatAppendAssistant_AlwaysTitle(i) ==
    /\ requests[i].fn = "chat"
    /\ requests[i].pc = "append_assistant"
    /\ messages' = append_message_insert(requests[i].user_id, requests[i].conv,
                                         "assistant", requests[i].response_text)
    /\ conversations' = append_message_touch(requests[i].user_id, requests[i].conv)
    /\ now' = now + 1
    /\ tasks' = Append(tasks, NewTitleTask(requests[i]))
    /\ requests' = [requests EXCEPT ![i].pc = "done", ![i].status = 200]
    /\ UNCHANGED <<transcripts, documents, nrequests, call, ret>>

\* await append_message(..., sender="assistant", ...), then the title task is
\* created for a new conversation and the response returned
ChatAppendAssistant(i) ==
    /\ requests[i].fn = "chat"
    /\ requests[i].pc = "append_assistant"
    /\ messages' = append_message_insert(requests[i].user_id, requests[i].conv,
                                         "assistant", requests[i].response_text)
    /\ conversations' = append_message_touch(requests[i].user_id, requests[i].conv)
    /\ now' = now + 1
    /\ tasks' = IF requests[i].created_new
                THEN Append(tasks, NewTitleTask(requests[i]))
                ELSE tasks
    /\ requests' = [requests EXCEPT ![i].pc = "done", ![i].status = 200]
    /\ UNCHANGED <<transcripts, documents, nrequests, call, ret>>

Without(seq, i) ==
    SubSeq(seq, 1, i - 1) \o SubSeq(seq, i + 1, Len(seq))

\* The response (or the error) of a request goes out: the request is over.
Respond(i) ==
    /\ requests[i].pc = "done"
    /\ requests' = Without(requests, i)
    /\ UNCHANGED <<dbvars, nrequests, tasks, call, ret>>

----------------------------------------------------------------------------
(* The background title task *)

GeneratedTitle == "Generated Title"

\* chat_service.generate_chat_title in its thread.  outcome is what the LLM
\* service does: "nokey" (no credential), "ok" (a title), "empty" (nothing
\* left after cleaning) or "raise".  The result is the title, or "" when the
\* function raised.
generate_chat_title(first_user_message, first_assistant_message, outcome) ==
    IF outcome = "nokey" THEN ""
    ELSE IF Strip(first_user_message) = <<>> /\ Strip(first_assistant_message) = <<>>
    THEN "New Chat"
    ELSE IF outcome = "ok" THEN GeneratedTitle
    ELSE IF outcome = "empty" THEN "New Chat"
    ELSE ""

\* The LLM calls generate_chat_title makes: none without a credential or
\* for two blank messages, one when the first invoke answers, two when the
\* first invoke raised and the except clause called the model again.
generate_chat_title_llm_calls(first_user_message, first_assistant_message, outcome) ==
    IF outcome = "nokey" THEN 0
    ELSE IF Strip(first_user_message) = <<>> /\ Strip(first_assistant_message) = <<>>
    THEN 0
    ELSE IF outcome = "raise" THEN 2
    ELSE 1

TitleOutcomes == {"nokey", "ok", "empty", "raise"}

\* Mutant: the exception of generate_chat_title is not noticed.
Raised_Never(title) == FALSE

\* generate_chat_title raised (it returns no empty title)
Raised(title) == title = ""

\* except Exception as e: _log.warning("Title generation failed ...")
\* The task is over; its record stays as the line of the log.
Logged(i) == [tasks EXCEPT ![i].pc = "logged"]

\* title = await asyncio.to_thread(generate_chat_title, ...); an exception
\* ends the task in its except clause
TitleGenerate(i, outcome) ==
    /\ tasks[i].pc = "generate"
    /\ LET title == generate_chat_title(tasks[i].first_user_message,
                                        tasks[i].first_assistant_message, outcome)
       IN  tasks' = IF Raised(title) THEN Logged(i)
                    ELSE [tasks EXCEPT ![i].pc = "write", ![i].title = title]
    /\ UNCHANGED <<dbvars, requests, nrequests, call, ret>>

\* What the database does with the update: it applies it, or raises
WriteOutcomes == {"ok", "raise"}

\* await update_conversation_title_if_placeholder(...); an exception of the
\* database ends the task in its except clause.  The record of a task that
\* returned stays, with what the update returned.
TitleWrite(i, db) ==
    /\ tasks[i].pc = "write"
    /\ IF db = "ok"
       THEN /\ conversations' = update_conversation_title_if_placeholder(
                                    tasks[i].user_id, tasks[i].conversation_id,
                                    tasks[i].title)
            /\ tasks' = [tasks EXCEPT ![i].pc = "done", ![i].modified =
                            update_conversation_title_if_placeholder_result(
                                tasks[i].user_id, tasks[i].conversation_id,
                                tasks[i].title)]
       ELSE /\ conversations' = conversations
            /\ tasks' = Logged(i)
    /\ UNCHANGED <<messages, transcripts, documents, now, requests, nrequests,
                   call, ret>>

----------------------------------------------------------------------------
(* The other endpoints *)

\* POST /api/documents/parse: the parsed document is stored; call keeps the
\* text the parser extracted and ret the response.
ParseDocument(user_id, extracted) ==
    /\ Len(documents) < MaxDocs
    /\ LET parsed == parse_document_bytes(extracted)
       IN  /\ documents' = create_document(user_id, parsed)
           /\ ret' = [fn |-> "parse_document",
                      document_id |-> Oid(Len(documents) + 1),
                      metadata |-> parsed.metadata]
    /\ call' = [fn |-> "parse_document", user_id |-> user_id,
                extracted |-> extracted]
    /\ UNCHANGED <<conversations, messages, transcripts, now, requests,
                   nrequests, tasks>>

\* POST /api/media/transcribe
MediaTranscribe(user_id, segments) ==
    /\ Len(transcripts) < MaxTranscripts
    /\ transcripts' = create_transcript(user_id, segments)
    /\ UNCHANGED <<conversations, messages, documents, now, requests,
                   nrequests, tasks, call, ret>>

\* POST /api/conversations
CreateConversation(user_id) ==
    /\ Len(conversations) < MaxConvs
    /\ conversations' = create_conversation(user_id, "New Conversation")
    /\ now' = now + 1
    /\ UNCHANGED <<messages, transcripts, documents, requests, nrequests, tasks,
                   call, ret>>

\* A request handled in one step, with the response it ends with
Handled(fn, user_id, id, status) ==
    [fn |-> fn, user_id |-> user_id, id |-> id, pc |-> "done", status |-> status]

\* GET /api/conversations/{conversation_id}
GetConversation(user_id, conversation_id) ==
    /\ nrequests < MaxRequests
    /\ nrequests' = nrequests + 1
    /\ requests' = Append(requests,
            Handled("get_conversation", user_id, conversation_id,
                    IF get_conversation(user_id, conversation_id)
                    THEN 200 ELSE 404))
    /\ UNCHANGED <<dbvars, tasks, call, ret>>

\* DELETE /api/conversations/{conversation_id}
DeleteStart(user_id, conversation_id) ==
    /\ messages' = delete_conversation_messages(user_id, conversation_id)
    /\ conversations' = delete_conversation_doc(user_id, conversation_id)
    /\ requests' = Append(requests,
            Handled("delete_conversation", user_id, conversation_id,
                    IF get_conversation(user_id, conversation_id)
                    THEN 200 ELSE 404))
    /\ UNCHANGED <<transcripts, documents, now, tasks, call, ret>>

DeleteConversation(user_id, conversation_id) ==
    /\ Admit(MaxRequests)
    /\ DeleteStart(user_id, conversation_id)

\* GET /api/media/transcripts/{transcript_id}
MediaGetTranscript(user_id, transcript_id) ==
    /\ nrequests < MaxRequests
    /\ nrequests' = nrequests + 1
    /\ requests' = Append(requests,
            Handled("media_get_transcript", user_id, transcript_id,
                    IF get_transcript(user_id, transcript_id)
                    THEN 200 ELSE 404))
    /\ UNCHANGED <<dbvars, tasks, call, ret>>

\* GET /api/documents/{document_id}
GetParsedDocument(user_id, document_id) ==
    /\ nrequests < MaxRequests
    /\ nrequests' = nrequests + 1
    /\ requests' = Append(requests,
            Handled("get_parsed_document", user_id, document_id,
                    IF get_document(user_id, document_id)
                    THEN 200 ELSE 404))
    /\ UNCHANGED <<dbvars, tasks, call, ret>>

MediaQuestion == <<"w", "h", "a", "t">>

\* media_answer's prompt
MediaPrompt(question, context) ==
    [template |-> "media_answer", question |-> question, content |-> context,
     window |-> [shown |-> FALSE, st |-> 0, et |-> Inf]]

\* POST /api/media/answer
MediaAnswer(user_id, transcript_id, start_time, end_time, first, second) ==
    /\ nrequests < MaxRequests
    /\ nrequests' = nrequests + 1
    /\ LET req == [fn |-> "media_answer", user_id |-> user_id,
                   id |-> transcript_id, start_time |-> start_time,
                   end_time |-> end_time, pc |-> "done", status |-> 404,
                   wrapped |-> FALSE, context |-> <<>>, llm_calls |-> 0]
       IN  requests' = Append(requests,
            IF ~get_transcript(user_id, transcript_id)
            THEN req
            ELSE LET m == MediaContext(transcripts[transcript_id.v].segments,
                                       start_time, end_time)
                     llm == generate_chat_response_with_history(
                                <<>>, MediaPrompt(MediaQuestion, m.context),
                                DefaultSystemPrompt, first, second)
                 IN  IF m.status = "400" THEN [req EXCEPT !.status = 400]
                     ELSE IF m.status = "500" THEN [req EXCEPT !.status = 500]
                     ELSE IF llm.raised = ""
                     THEN [req EXCEPT !.status = 200, !.context = m.context,
                                      !.llm_calls = llm.llm_calls]
                     ELSE [req EXCEPT !.status = 500, !.context = m.context,
                                      !.wrapped = (llm.raised # "RuntimeError"),
                                      !.llm_calls = llm.llm_calls])
    /\ UNCHANGED <<dbvars, tasks, call, ret>>

----------------------------------------------------------------------------
(* The server *)

Init ==
    /\ SysIdle
    /\ call = [fn |-> "none"]
    /\ ret = NoRet

Next ==
    \/ \E u \in Users, m \in ChatMessages, c \in ConversationIds :
          ChatBegin(u, m, c)
    \/ \E i \in DOMAIN requests : ChatHistory(i)
    \/ \E i \in DOMAIN requests : ChatAppendUser(i)
    \/ \E i \in DOMAIN requests, t \in TranscriptIds, d \in DocumentIds,
          st \in StartTimeOpts, et \in EndTimeOpts,
          first \in LlmFirst, second \in LlmSecond :
          ChatGround(i, t, d, st, et, first, second)
    \/ \E i \in DOMAIN requests : ChatAppendAssistant(i)
    \/ \E i \in DOMAIN requests : Respond(i)
    \/ \E i \in DOMAIN tasks, o \in TitleOutcomes : TitleGenerate(i, o)
    \/ \E i \in DOMAIN tasks, db \in WriteOutcomes : TitleWrite(i, db)
    \/ \E u \in Users, x \in ExtractedTexts : ParseDocument(u, x)
    \/ \E u \in Users, s \in TranscribedSegments : MediaTranscribe(u, s)
    \/ \E u \in Users : CreateConversation(u)
    \/ \E u \in Users, c \in ConversationIds \ {None} : GetConversation(u, c)
    \/ \E u \in Users, c \in ConversationIds \ {None} : DeleteConversation(u, c)
    \/ \E u \in Users, t \in TranscriptIds \ {None} : MediaGetTranscript(u, t)
    \/ \E u \in Users, d \in DocumentIds \ {None} : GetParsedDocument(u, d)
    \/ \E u \in Users, t \in TranscriptIds \ {None},
          st \in StartTimeOpts, et \in EndTimeOpts,
          first \in LlmFirst, second \in LlmSecond :
          MediaAnswer(u, t, st, et, first, second)

Spec == Init /\ [][Next]_vars

----------------------------------------------------------------------------
(* Grounding selection in /api/chat *)

\* The chat requests whose try block has chosen a grounding
Grounded ==
    {i \in DOMAIN requests : requests[i].fn = "chat" /\ requests[i].selection # ""}

NonNull(x) == x.k # "none"

Hi == <<"h", "i">>
Clip == <<"c", "l", "i", "p">>

\* C3: a chat request that carries a document_id selects Document grounding
\* whatever its transcript_id, time window and message are: the transcript
\* is neither fetched nor rendered into the prompt.
C3_DocumentPrecedence ==
    \A i \in Grounded :
        Present(requests[i].document_id)
            => /\ requests[i].selection = "document"
               /\ "transcript" \notin requests[i].fetched
               /\ requests[i].user_prompt.template # "transcript"
               /\ requests[i].sent.user_message.template # "transcript"

\* A request with a document, a transcript, a time window and a message
\* about a clip was answered from the document.
C3_Witness ==
    \E i \in Grounded :
        /\ Present(requests[i].document_id)
        /\ Present(requests[i].transcript_id)
        /\ get_transcript(requests[i].user_id, requests[i].transcript_id)
        /\ NonNull(requests[i].start_time)
        /\ requests[i].message = Clip
        /\ requests[i].user_prompt.template = "document"
        /\ requests[i].status = 200

\* C4, as amended: a chat request with a non-null start_time or end_time
\* and a present transcript_id, and no document_id, selects Transcript
\* grounding whatever its message is.
C4_WindowSelectsTranscript ==
    \A i \in Grounded :
        /\ NonNull(requests[i].start_time) \/ NonNull(requests[i].end_time)
        /\ Present(requests[i].transcript_id)
        /\ ~Present(requests[i].document_id)
        => /\ requests[i].selection = "transcript"
           /\ requests[i].fetched = {"transcript"}

\* The message "hi" with start_time = 0 was answered from the transcript.
C4_Witness ==
    \E i \in Grounded :
        /\ requests[i].message = Hi
        /\ requests[i].start_time = Num(0)
        /\ requests[i].end_time = None
        /\ ~Present(requests[i].document_id)
        /\ requests[i].user_prompt.template = "transcript"
        /\ requests[i].status = 200

\* C4 as stated: a non-null start_time or end_time and a present
\* transcript_id always select Transcript grounding.
C4_AsStated ==
    \A i \in Grounded :
        /\ NonNull(requests[i].start_time) \/ NonNull(requests[i].end_time)
        /\ Present(requests[i].transcript_id)
        => requests[i].selection = "transcript"

\* C5: a chat request with no document_id, and with no transcript_id or a
\* message the heuristic does not take for a question about the transcript,
\* selects no grounding: the prompt is the message verbatim, the system
\* prompt is the default one, nothing is fetched, and the request does not
\* end with a not-found error.
C5_NoGrounding ==
    \A i \in Grounded :
        /\ ~Present(requests[i].document_id)
        /\ \/ ~Present(requests[i].transcript_id)
           \/ ~_looks_transcript_related(requests[i].message,
                                         requests[i].start_time,
                                         requests[i].end_time)
        => /\ requests[i].selection = "none"
           /\ requests[i].fetched = {}
           /\ requests[i].user_prompt = RawPrompt(requests[i].message)
           /\ requests[i].system_prompt = DefaultSystemPrompt
           /\ requests[i].llm_calls > 0
                => /\ requests[i].sent.user_message = RawPrompt(requests[i].message)
                   /\ requests[i].sent.system_prompt = DefaultSystemPrompt
           /\ requests[i].detail \notin {"Transcript not found", "Document not found"}
           /\ requests[i].status # 404

\* "hi" with the id of a transcript that is not stored was answered without
\* grounding.
C5_Witness ==
    \E i \in Grounded :
        /\ requests[i].message = Hi
        /\ Present(requests[i].transcript_id)
        /\ ~get_transcript(requests[i].user_id, requests[i].transcript_id)
        /\ ~Present(requests[i].document_id)
        /\ requests[i].selection = "none"
        /\ requests[i].llm_calls = 1
        /\ requests[i].status = 200

----------------------------------------------------------------------------
(* Size budgets *)

\* All the lines of the windowed segments, joined, before any cut
FullRendering(segments, start_time, end_time) ==
    LET chosen == Chosen(segments, WindowStart(start_time), WindowEnd(end_time))
    IN  JoinLines([i \in 1..Len(chosen) |->
                      Line(chosen[i].start, chosen[i].end, chosen[i].text)])

\* The content ends with the marker of the document prompt, after the first
\* 50,000 characters.
DocMarkerPresent(content) ==
    /\ StrLen(content) = DocContextLimit + StrLen(DocMarker)
    /\ content = Cat(Take(content, DocContextLimit), DocMarker)

\* C7: the transcript context of a prompt is at most 120,000 characters,
\* the first 120,000 of the rendering and nothing else when the rendering
\* is longer; the document content of a document-grounded prompt is the
\* first 50,000 characters of the stored content, followed by the marker
\* exactly when the stored content is longer than 50,000 characters.
C7_ContextBudgets ==
    \A i \in DOMAIN requests :
        LET r == requests[i]
        IN  /\ r.fn = "chat" /\ r.user_prompt.template = "transcript"
                => LET full == FullRendering(transcripts[r.transcript_id.v].segments,
                                             r.start_time, r.end_time)
                   IN  /\ StrLen(r.user_prompt.content) <= 120000
                       /\ r.user_prompt.content =
                              IF StrLen(full) > 120000 THEN Take(full, 120000)
                              ELSE full
            /\ r.fn = "media_answer" => StrLen(r.context) <= 120000
            /\ r.fn = "chat" /\ r.user_prompt.template = "document"
                => LET stored == documents[r.document_id.v].content
                       content == r.user_prompt.content
                   IN  /\ StrLen(content) <= 50000 + StrLen(DocMarker)
                       /\ Take(content, 50000) = Take(stored, 50000)
                       /\ DocMarkerPresent(content) <=> StrLen(stored) > 50000
                       /\ StrLen(stored) <= 50000 => content = stored

\* A rendering of 120,001 characters went to the LLM cut to 120,000.
C7_Witness ==
    \E i \in Grounded :
        /\ requests[i].user_prompt.template = "transcript"
        /\ StrLen(FullRendering(transcripts[requests[i].transcript_id.v].segments,
                                requests[i].start_time, requests[i].end_time))
              > 120000
        /\ StrLen(requests[i].sent.user_message.content) = 120000
        /\ requests[i].llm_calls > 0

\* C8, as amended: the content of a stored parsed document is the extracted
\* text when that has at most 100,000 characters, and else its first 100,000
\* characters followed by the 36-character marker; metadata.truncated is set
\* exactly when the extracted text was longer than 100,000 characters.
C8_StoredContent ==
    call.fn = "parse_document"
        => LET d == documents[ret.document_id.v]
               extracted == call.extracted
           IN  /\ d.metadata.truncated <=> StrLen(extracted) > 100000
               /\ d.metadata = ret.metadata
               /\ Take(d.content, 100000) = Take(extracted, 100000)
               /\ StrLen(d.content) <= 100000 + StrLen(ParseMarker)
               /\ d.metadata.truncated
                    => d.content = Cat(Take(extracted, 100000), ParseMarker)
               /\ ~d.metadata.truncated => d.content = extracted

\* A text of 100,001 characters was stored truncated, with the marker.
C8_Witness ==
    /\ call.fn = "parse_document"
    /\ StrLen(call.extracted) = 100001
    /\ documents[ret.document_id.v].metadata.truncated
    /\ StrLen(documents[ret.document_id.v].content) = 100036

\* C8 as stated: every stored content has at most 100,000 characters, and
\* truncated is set exactly when the extracted text was longer.
C8_AsStated ==
    /\ \A i \in DOMAIN documents : StrLen(documents[i].content) <= 100000
    /\ call.fn = "parse_document"
          => (documents[ret.document_id.v].metadata.truncated
                <=> StrLen(call.extracted) > 100000)

----------------------------------------------------------------------------
(* Error outcomes *)

\* No object with this id was ever stored for this user.  (Ids number the
\* objects in creation order and an owner never changes.)
NeverOwned(collection, user_id, id) ==
    id.v > Len(collection) \/ collection[id.v].user_id # user_id

\* C9 as stated: a chat request that selected Transcript grounding and found
\* no segment with usable text in its window ends with HTTP 400.
C9_AsStated ==
    \A i \in Grounded :
        /\ requests[i].pc = "done"
        /\ requests[i].selection = "transcript"
        /\ requests[i].detail = "No transcript content in the requested time range"
        /\ _build_transcript_context(
               transcripts[requests[i].transcript_id.v].segments,
               requests[i].start_time, requests[i].end_time) = <<>>
        => requests[i].status = 400

\* C10 as stated: a finished request that named a conversation, a document
\* or a transcript never stored for its user ended with HTTP 404.
C10_AsStated ==
    \A i \in DOMAIN requests :
        LET r == requests[i]
        IN  r.pc = "done" =>
            /\ r.fn = "chat" /\ Present(r.conversation_id)
                  /\ NeverOwned(conversations, r.user_id, r.conversation_id)
                  => r.status = 404
            /\ r.fn = "chat" /\ r.selection = "document"
                  /\ NeverOwned(documents, r.user_id, r.document_id)
                  => r.status = 404
            /\ r.fn = "chat" /\ r.selection = "transcript"
                  /\ NeverOwned(transcripts, r.user_id, r.transcript_id)
                  => r.status = 404
            /\ r.fn \in {"get_conversation", "delete_conversation"}
                  /\ NeverOwned(conversations, r.user_id, r.id)
                  => r.status = 404
            /\ r.fn \in {"media_get_transcript", "media_answer"}
                  /\ NeverOwned(transcripts, r.user_id, r.id)
                  => r.status = 404
            /\ r.fn = "get_parsed_document"
                  /\ NeverOwned(documents, r.user_id, r.id)
                  => r.status = 404

----------------------------------------------------------------------------
(* Failures found before the LLM is called *)

\* The segments media_answer keeps for its window
MediaKept(segments, start_t, end_t) ==
    IF MediaWindowed(start_t, end_t)
    THEN MediaFilter(segments, MediaWindowStart(start_t), MediaWindowEnd(end_t))
    ELSE segments

\* C11: a chat request whose document or selected transcript is not stored
\* for its user, or whose window holds no usable segment of the transcript,
\* and a media_answer request whose transcript is not stored for its user
\* or has no segment in the window, make no LLM call.
C11_FailureBeforeLlm ==
    \A i \in DOMAIN requests :
        LET r == requests[i]
        IN  /\ r.fn = "chat" /\ r.selection = "document"
                  /\ NeverOwned(documents, r.user_id, r.document_id)
                  => r.llm_calls = 0 /\ r.status # 200
            /\ r.fn = "chat" /\ r.selection = "transcript"
                  /\ NeverOwned(transcripts, r.user_id, r.transcript_id)
                  => r.llm_calls = 0 /\ r.status # 200
            /\ r.fn = "chat" /\ r.selection = "transcript"
                  /\ ~NeverOwned(transcripts, r.user_id, r.transcript_id)
                  /\ FullRendering(transcripts[r.transcript_id.v].segments,
                                   r.start_time, r.end_time) = <<>>
                  => r.llm_calls = 0 /\ r.status # 200
            /\ r.fn = "chat"
                  /\ r.detail \in {"Document not found", "Transcript not found",
                                   "No transcript content in the requested time range"}
                  => r.llm_calls = 0
            /\ r.fn = "media_answer"
                  /\ NeverOwned(transcripts, r.user_id, r.id)
                  => r.llm_calls = 0 /\ r.status = 404
            /\ r.fn = "media_answer"
                  /\ ~NeverOwned(transcripts, r.user_id, r.id)
                  /\ MediaKept(transcripts[r.id.v].segments,
                               r.start_time, r.end_time) = <<>>
                  => r.llm_calls = 0 /\ r.status \in {400, 404}
            /\ r.fn = "media_answer" /\ r.status \in {400, 404}
                  => r.llm_calls = 0

\* A chat request selected a stored transcript, found no segment in its
\* window and ended without an LLM call.
C11_Witness ==
    \E i \in Grounded :
        /\ requests[i].selection = "transcript"
        /\ requests[i].detail = "No transcript content in the requested time range"
        /\ get_transcript(requests[i].user_id, requests[i].transcript_id)
        /\ FullRendering(transcripts[requests[i].transcript_id.v].segments,
                         requests[i].start_time, requests[i].end_time) = <<>>
        /\ requests[i].llm_calls = 0
        /\ requests[i].pc = "done"

----------------------------------------------------------------------------
(* _seconds_to_hms as a function: its argument drawn from a bounded set *)

MaxClock == 130

\* Whole seconds: the negative ones, the first minutes, and the values
\* around the full hours up to the last second below 100 hours.  (A
\* fraction of a second changes none of the three floors.)
HmsSeconds ==
    (-MaxTime..MaxClock)
        \cup {3599, 3600, 3601, 3661, 3725, 35999, 36000, 86399, 86400,
              359940, 359999}

InitHms ==
    /\ SysIdle
    /\ call \in [seconds : HmsSeconds]
    /\ ret = NoRet

SecondsToHms ==
    /\ ret.fn = "none"
    /\ ret' = [fn |-> "_seconds_to_hms", value |-> _seconds_to_hms(call.seconds)]
    /\ UNCHANGED <<call, sysvars>>

NextHms == SecondsToHms

SpecHms == InitHms /\ [][NextHms]_vars

----------------------------------------------------------------------------
(* Claims about _seconds_to_hms *)

Digit(d) ==
    CASE d = 0 -> "0" [] d = 1 -> "1" [] d = 2 -> "2" [] d = 3 -> "3"
      [] d = 4 -> "4" [] d = 5 -> "5" [] d = 6 -> "6" [] d = 7 -> "7"
      [] d = 8 -> "8" [] d = 9 -> "9"

TwoDigits(n) == <<Digit(n \div 10), Digit(n % 10)>>

\* HH:MM:SS, each part written with exactly two digits
Clock(hh, mm, ss) ==
    FromChars(TwoDigits(hh) \o <<":">> \o TwoDigits(mm) \o <<":">> \o TwoDigits(ss))

\* C19: _seconds_to_hms renders s seconds, 0 <= s < 100 hours, as the
\* zero-padded HH:MM:SS with HH = floor(s/3600), MM = floor((s mod 3600)/60)
\* and SS = s mod 60, and every negative s as "00:00:00"; 3725 gives
\* "01:02:05".
C19_ClockRendering ==
    ret.fn = "_seconds_to_hms"
        => LET s == call.seconds
           IN  /\ s < 0 => ret.value = Clock(0, 0, 0)
               /\ s >= 0 /\ s < 360000
                    => /\ ret.value = Clock(s \div 3600, (s % 3600) \div 60, s % 60)
                       /\ StrLen(ret.value) = 8
               /\ s = 0 => ret.value = FromChars(<<"0", "0", ":", "0", "0", ":", "0", "0">>)
               /\ s = 3725
                    => ret.value = FromChars(<<"0", "1", ":", "0", "2", ":", "0", "5">>)

\* 3725 seconds were rendered.
C19_Witness ==
    /\ ret.fn = "_seconds_to_hms"
    /\ call.seconds = 3725
    /\ ret.value = FromChars(<<"0", "1", ":", "0", "2", ":", "0", "5">>)

----------------------------------------------------------------------------
(* generate_chat_title as a function: its arguments and what the LLM
   service does drawn from bounded sets *)

TitleTexts == {<<>>, <<" ">>, <<" ", " ">>, <<"h", "i">>, Reply}

InitTitleFn ==
    /\ SysIdle
    /\ call \in [first_user_message : TitleTexts,
                 first_assistant_message : TitleTexts,
                 outcome : TitleOutcomes]
    /\ ret = NoRet

\* ret.value is the title returned, "" when the function raised
GenerateChatTitle ==
    /\ ret.fn = "none"
    /\ ret' = [fn |-> "generate_chat_title",
               value |-> generate_chat_title(call.first_user_message,
                                             call.first_assistant_message,
                                             call.outcome),
               llm_calls |-> generate_chat_title_llm_calls(
                                 call.first_user_message,
                                 call.first_assistant_message, call.outcome)]
    /\ UNCHANGED <<call, sysvars>>

NextTitleFn == GenerateChatTitle

SpecTitleFn == InitTitleFn /\ [][NextTitleFn]_vars

----------------------------------------------------------------------------
(* Claims about generate_chat_title *)

\* C20: generate_chat_title called with both messages empty or whitespace
\* returns "New Chat" and makes no LLM call, whatever the configuration, a
\* missing credential included.
C20_AsStated ==
    (/\ ret.fn = "generate_chat_title"
     /\ Strip(call.first_user_message) = <<>>
     /\ Strip(call.first_assistant_message) = <<>>)
        => ret.value = "New Chat" /\ ret.llm_calls = 0

\* C18: a chat request whose generation failed ends with status 500 in one
\* of two ways, the message of a missing credential passed through verbatim
\* or the error wrapped as "Failed to generate response: <error>", and in
\* both the LLM was asked at most once: the failed generation is not tried
\* again.
C18_AsStated ==
    \A i \in DOMAIN requests :
        LET r == requests[i]
        IN  (/\ r.fn = "chat"
             /\ r.pc = "done"
             /\ r.detail \in {"Missing GOOGLE_API_KEY in environment (.env)",
                              "llm error"})
                => /\ r.status = 500
                   /\ r.detail = "Missing GOOGLE_API_KEY in environment (.env)"
                        => ~r.wrapped /\ r.llm_calls = 0
                   /\ r.llm_calls <= 1

----------------------------------------------------------------------------
(* update_conversation_title_if_placeholder as an operation on a store that
   holds one conversation: POST /api/conversations?title=... stores any
   title, DELETE removes the conversation again *)

StoredTitles ==
    {"New Chat", "Chat", "Conversation", "New Conversation", "My Title",
     GeneratedTitle}

StoredConversations ==
    [user_id : Users, title : StoredTitles, created_at : {1}, updated_at : {1},
     live : BOOLEAN]

InitTitleWrite ==
    /\ conversations \in {<<c>> : c \in StoredConversations}
    /\ messages = <<>>
    /\ transcripts = <<>>
    /\ documents = <<>>
    /\ now = 2
    /\ requests = <<>>
    /\ nrequests = 0
    /\ tasks = <<>>
    /\ call \in [user_id : Users,
                 conversation_id : {None, Oid(1), Oid(2)},
                 title : {GeneratedTitle, "New Chat"}]
    /\ ret = NoRet

UpdateTitleIfPlaceholder ==
    /\ ret.fn = "none"
    /\ conversations' = update_conversation_title_if_placeholder(
                            call.user_id, call.conversation_id, call.title)
    /\ ret' = [fn |-> "update_conversation_title_if_placeholder",
               value |-> update_conversation_title_if_placeholder_result(
                             call.user_id, call.conversation_id, call.title)]
    /\ UNCHANGED <<messages, transcripts, documents, now, requests, nrequests,
                   tasks, call>>

NextTitleWrite == UpdateTitleIfPlaceholder

SpecTitleWrite == InitTitleWrite /\ [][NextTitleWrite]_vars

----------------------------------------------------------------------------
(* Claims about update_conversation_title_if_placeholder *)

\* C12: update_conversation_title_if_placeholder changes the title of a
\* conversation only if the title stored at the moment of the write is one
\* of "New Chat", "Chat", "Conversation" and the conversation is the one
\* named and belongs to the given user; on a conversation whose title is
\* none of the three it changes nothing and returns false.  (It returns
\* true exactly when it changed a title.)
C12_PlaceholderGuard ==
    [][\A c \in DOMAIN conversations :
         LET stored == conversations[c]
         IN  /\ Len(conversations') = Len(conversations)
             /\ conversations'[c].title # stored.title
                  => /\ stored.title \in {"New Chat", "Chat", "Conversation"}
                     /\ stored.user_id = call.user_id
                     /\ call.conversation_id = Oid(c)
                     /\ conversations'[c].title = call.title
             /\ stored.title \notin {"New Chat", "Chat", "Conversation"}
                  => /\ conversations'[c] = stored
                     /\ ret'.value = FALSE
             /\ ret'.value = (conversations'[c].title # stored.title)
      ]_vars

\* The update ran on the caller's own conversation, whose title had been
\* changed away from the placeholders: the title is as it was and the result
\* is false.
C12_Witness ==
    /\ ret.fn = "update_conversation_title_if_placeholder"
    /\ call.conversation_id = Oid(1)
    /\ conversations[1].user_id = call.user_id
    /\ conversations[1].live
    /\ conversations[1].title = "My Title"
    /\ ret.value = FALSE

----------------------------------------------------------------------------
(* The conversations of the server by themselves: chat turns without
   grounding, the title task, a rename through
   conversation_store.update_conversation_title, and the deletion *)

MaxTurns == 2

RenameTitles == {"Chat", "My Title"}

\* await update_conversation_title(db, user_id=..., conversation_id=..., title=...)
UpdateConversationTitle(user_id, conversation_id, title) ==
    /\ conversations' = update_conversation_title(user_id, conversation_id, title)
    /\ UNCHANGED <<messages, transcripts, documents, now, requests, nrequests,
                   tasks, call, ret>>

\* POST /api/chat, one of MaxTurns requests
ChatTurn(user_id, message, conversation_id) ==
    /\ Admit(MaxTurns)
    /\ ChatStart(user_id, message, conversation_id)

\* The try block of a chat that names no transcript and no document
ChatAnswer(i, first, second) ==
    ChatGround(i, None, None, None, None, first, second)

\* DELETE /api/conversations/{conversation_id}, one of MaxTurns requests
DeleteTurn(user_id, conversation_id) ==
    /\ Admit(MaxTurns)
    /\ DeleteStart(user_id, conversation_id)

NextConversation ==
    \/ \E u \in Users, m \in ChatMessages, c \in ConversationIds :
          ChatTurn(u, m, c)
    \/ \E i \in DOMAIN requests : ChatHistory(i)
    \/ \E i \in DOMAIN requests : ChatAppendUser(i)
    \/ \E i \in DOMAIN requests, first \in LlmFirst, second \in LlmSecond :
          ChatAnswer(i, first, second)
    \/ \E i \in DOMAIN requests : ChatAppendAssistant(i)
    \/ \E i \in DOMAIN requests : Respond(i)
    \/ \E i \in DOMAIN tasks, o \in TitleOutcomes : TitleGenerate(i, o)
    \/ \E i \in DOMAIN tasks, db \in WriteOutcomes : TitleWrite(i, db)
    \/ \E u \in Users, c \in ConversationIds \ {None}, t \in RenameTitles :
          UpdateConversationTitle(u, c, t)
    \/ \E u \in Users, c \in ConversationIds \ {None} : DeleteTurn(u, c)
    \/ \E u \in Users : CreateConversation(u)

SpecConversation == Init /\ [][NextConversation]_vars

----------------------------------------------------------------------------
(* Claims about the title task and the conversations *)

\* A title task whose update returned
TitleTasksDone == {i \in DOMAIN tasks : tasks[i].pc = "done"}

\* C13: a title that a rename (update_conversation_title) has set to
\* something other than "New Chat", "Chat" and "Conversation" is never
\* overwritten by the title task, however the task, the rename and further
\* chat turns on the conversation interleave: from such a title the next
\* title is that title or the title of another rename.
C13_RenamedTitleKept ==
    [][\A c \in DOMAIN conversations :
         (/\ conversations[c].title \in RenameTitles
          /\ conversations[c].title \notin {"New Chat", "Chat", "Conversation"})
            => conversations'[c].title \in RenameTitles
      ]_vars

\* The title task of a conversation returned from an update that modified
\* nothing: the conversation has the title of the rename that came first.
C13_Witness ==
    \E i \in TitleTasksDone :
        /\ ~tasks[i].modified
        /\ tasks[i].title = GeneratedTitle
        /\ conversations[tasks[i].conversation_id.v].title = "My Title"
        /\ conversations[tasks[i].conversation_id.v].live

\* C13 as stated: no title that a rename has set is overwritten by the
\* title task.
C13_AsStated ==
    [][\A c \in DOMAIN conversations :
         conversations[c].title \in RenameTitles
            => conversations'[c].title \in RenameTitles
      ]_vars

\* A title task that ended in the except clause
TitleTasksLogged == {i \in DOMAIN tasks : tasks[i].pc = "logged"}

\* The message of a sender with a text is stored in a conversation
Persisted(conversation_id, sender, text) ==
    \E k \in DOMAIN messages :
        /\ messages[k].conversation_id = conversation_id.v
        /\ messages[k].sender = sender
        /\ messages[k].text = text

\* C14: a failure of the title task (the LLM raising, a missing credential,
\* the database raising on the write) ends inside the task: the step in
\* which the task fails changes no conversation, no message and no request,
\* so the title, the persisted messages and the response of the chat stay
\* as they were; no title other than a placeholder, a generated title or a
\* renamed title is ever stored, and the two messages of the chat that
\* started the task are stored for as long as its conversation is.
C14_TitleFailureContained ==
    /\ [](\A c \in DOMAIN conversations :
            conversations[c].title \in
                {"New Chat", "New Conversation", GeneratedTitle} \cup RenameTitles)
    /\ [](\A i \in TitleTasksLogged :
            conversations[tasks[i].conversation_id.v].live
                => /\ Persisted(tasks[i].conversation_id, "user",
                                tasks[i].first_user_message)
                   /\ Persisted(tasks[i].conversation_id, "assistant",
                                tasks[i].first_assistant_message))
    /\ [][\A i \in DOMAIN tasks :
            (tasks[i].pc # "logged" /\ tasks'[i].pc = "logged")
                => /\ conversations' = conversations
                   /\ messages' = messages
                   /\ requests' = requests
       ]_vars

\* The database raised on the write of a generated title: the task is
\* logged, the conversation has its first title and the chat its response.
C14_Witness ==
    \E i \in TitleTasksLogged :
        /\ tasks[i].title = GeneratedTitle
        /\ conversations[tasks[i].conversation_id.v].title = "New Chat"
        /\ conversations[tasks[i].conversation_id.v].live
        /\ Persisted(tasks[i].conversation_id, "assistant", Reply)
        /\ \E r \in DOMAIN requests :
              /\ requests[r].fn = "chat"
              /\ requests[r].created_new
              /\ requests[r].status = 200
              /\ requests[r].response_text = Reply

----------------------------------------------------------------------------
(* The three stores by themselves: any sequence of their operations, each
   called for a user with an id, with what it returned *)

MaxMessages == 2

\* The call of a store operation and what it returned: the objects (a list,
\* or the one object of a get) and, for an update or a delete, its result
Returned(fn, user_id, id, value, ok) ==
    /\ call' = [fn |-> fn, user_id |-> user_id, id |-> id]
    /\ ret' = [fn |-> fn, value |-> value, ok |-> ok]

StoreCreateConversation(user_id) ==
    /\ Len(conversations) < MaxConvs
    /\ conversations' = create_conversation(user_id, "New Chat")
    /\ now' = now + 1
    /\ Returned("create_conversation", user_id, None, <<>>, TRUE)
    /\ UNCHANGED <<messages, transcripts, documents, requests, nrequests, tasks>>

StoreCreateTranscript(user_id) ==
    /\ Len(transcripts) < MaxTranscripts
    /\ transcripts' = create_transcript(user_id, <<Utterance(0, 1, FromChars(<<"h", "i">>))>>)
    /\ Returned("create_transcript", user_id, None, <<>>, TRUE)
    /\ UNCHANGED <<conversations, messages, documents, now, requests, nrequests,
                   tasks>>

StoreCreateDocument(user_id) ==
    /\ Len(documents) < MaxDocs
    /\ documents' = create_document(user_id, parse_document_bytes(FromChars(<<"h", "i">>)))
    /\ Returned("create_document", user_id, None, <<>>, TRUE)
    /\ UNCHANGED <<conversations, messages, transcripts, now, requests,
                   nrequests, tasks>>

\* append_message, which chat calls for a conversation it has looked up for
\* the caller or created
StoreAppendMessage(user_id, conversation_id) ==
    /\ Len(messages) < MaxMessages
    /\ get_conversation(user_id, conversation_id)
    /\ messages' = append_message_insert(user_id, conversation_id, "user", <<"h", "i">>)
    /\ conversations' = append_message_touch(user_id, conversation_id)
    /\ now' = now + 1
    /\ Returned("append_message", user_id, conversation_id, <<>>, TRUE)
    /\ UNCHANGED <<transcripts, documents, requests, nrequests, tasks>>

StoreGetConversation(user_id, conversation_id) ==
    /\ Returned("get_conversation", user_id, conversation_id,
                IF get_conversation(user_id, conversation_id)
                THEN <<conversations[conversation_id.v]>> ELSE <<>>,
                TRUE)
    /\ UNCHANGED sysvars

StoreListConversations(user_id) ==
    /\ Returned("list_conversations", user_id, None,
                list_conversations(user_id, 50), TRUE)
    /\ UNCHANGED sysvars

StoreListMessages(user_id, conversation_id) ==
    /\ Returned("list_messages", user_id, conversation_id,
                list_messages(user_id, conversation_id, HistoryLimit), TRUE)
    /\ UNCHANGED sysvars

StoreDeleteConversation(user_id, conversation_id) ==
    /\ messages' = delete_conversation_messages(user_id, conversation_id)
    /\ conversations' = delete_conversation_doc(user_id, conversation_id)
    /\ Returned("delete_conversation", user_id, conversation_id, <<>>,
                conversations' # conversations)
    /\ UNCHANGED <<transcripts, documents, now, requests, nrequests, tasks>>

StoreUpdateTitle(user_id, conversation_id, title) ==
    /\ conversations' = update_conversation_title(user_id, conversation_id, title)
    /\ Returned("update_conversation_title", user_id, conversation_id, <<>>,
                \E i \in DOMAIN conversations :
                    /\ i = conversation_id.v
                    /\ conversations[i].live
                    /\ conversations[i].user_id = user_id)
    /\ UNCHANGED <<messages, transcripts, documents, now, requests, nrequests,
                   tasks>>

StoreUpdateTitleIfPlaceholder(user_id, conversation_id, title) ==
    /\ conversations' = update_conversation_title_if_placeholder(
                            user_id, conversation_id, title)
    /\ Returned("update_conversation_title_if_placeholder", user_id,
                conversation_id, <<>>,
                update_conversation_title_if_placeholder_result(
                    user_id, conversation_id, title))
    /\ UNCHANGED <<messages, transcripts, documents, now, requests, nrequests,
                   tasks>>

StoreGetTranscript(user_id, transcript_id) ==
    /\ Returned("get_transcript", user_id, transcript_id,
                IF get_transcript(user_id, transcript_id)
                THEN <<transcripts[transcript_id.v]>> ELSE <<>>,
                TRUE)
    /\ UNCHANGED sysvars

StoreListTranscripts(user_id) ==
    /\ Returned("list_transcripts", user_id, None,
                list_transcripts(user_id, 25), TRUE)
    /\ UNCHANGED sysvars

StoreGetDocument(user_id, document_id) ==
    /\ Returned("get_document", user_id, document_id,
                IF get_document(user_id, document_id)
                THEN <<documents[document_id.v]>> ELSE <<>>,
                TRUE)
    /\ UNCHANGED sysvars

StoreListDocuments(user_id) ==
    /\ Returned("list_documents", user_id, None,
                list_documents(user_id, 25), TRUE)
    /\ UNCHANGED sysvars

NextStore ==
    \/ \E u \in Users : StoreCreateConversation(u)
    \/ \E u \in Users : StoreCreateTranscript(u)
    \/ \E u \in Users : StoreCreateDocument(u)
    \/ \E u \in Users, c \in ConversationIds \ {None} : StoreAppendMessage(u, c)
    \/ \E u \in Users, c \in ConversationIds \ {None} : StoreGetConversation(u, c)
    \/ \E u \in Users : StoreListConversations(u)
    \/ \E u \in Users, c \in ConversationIds \ {None} : StoreListMessages(u, c)
    \/ \E u \in Users, c \in ConversationIds \ {None} : StoreDeleteConversation(u, c)
    \/ \E u \in Users, c \in ConversationIds \ {None}, t \in RenameTitles :
          StoreUpdateTitle(u, c, t)
    \/ \E u \in Users, c \in ConversationIds \ {None} :
          StoreUpdateTitleIfPlaceholder(u, c, GeneratedTitle)
    \/ \E u \in Users, t \in TranscriptIds \ {None} : StoreGetTranscript(u, t)
    \/ \E u \in Users : StoreListTranscripts(u)
    \/ \E u \in Users, d \in DocumentIds \ {None} : StoreGetDocument(u, d)
    \/ \E u \in Users : StoreListDocuments(u)

SpecStore == Init /\ [][NextStore]_vars

----------------------------------------------------------------------------
(* Claims about the stores *)

\* C17: whatever operations came before, a store operation called for a
\* user returns only objects of that user and changes or removes only
\* objects of that user: every conversation it changes, every message it
\* removes and every object it returns carries the caller's user_id, and no
\* stored transcript or document is changed at all.
C17_OwnObjectsOnly ==
    [][LET caller == call'.user_id
       IN  /\ \A j \in DOMAIN ret'.value : ret'.value[j].user_id = caller
           /\ \A c \in DOMAIN conversations :
                /\ c \in DOMAIN conversations'
                /\ conversations'[c] # conversations[c]
                     => conversations[c].user_id = caller
           /\ \A k \in DOMAIN messages :
                (\A j \in DOMAIN messages' : messages'[j] # messages[k])
                     => messages[k].user_id = caller
           /\ \A t \in DOMAIN transcripts : transcripts'[t] = transcripts[t]
           /\ \A d \in DOMAIN documents : documents'[d] = documents[d]
      ]_vars

\* delete_conversation was called by one user for the conversation of the
\* other, which holds messages: nothing was deleted.
C17_Witness ==
    /\ call.fn = "delete_conversation"
    /\ call.id = Oid(1)
    /\ Len(conversations) >= 1
    /\ conversations[1].user_id # call.user_id
    /\ conversations[1].live
    /\ \E k \in DOMAIN messages :
          messages[k].conversation_id = 1 /\ messages[k].user_id # call.user_id
    /\ ~ret.ok

----------------------------------------------------------------------------
(* One chat turn on a conversation that has a history: the conversation of
   user u1 after earlier turns, with its messages in the order they were
   stored *)

MaxStored == 241

\* How many messages the conversation holds: none, a few, and the numbers
\* around the 40 of the LLM service and the 200 of list_messages
StoredCounts == {0, 1, 2, 39, 40, 41, 199, 200, 201, MaxStored}

\* The k-th stored message: the turns alternate, every text is its own, and
\* in a conversation with blank replies every second reply is "" (the reply
\* to a blank message)
StoredMessage(k, blanks) ==
    [user_id |-> "u1", conversation_id |-> 1,
     sender |-> IF k % 2 = 1 THEN "user" ELSE "assistant",
     text |-> IF blanks /\ k % 4 = 0 THEN <<>> ELSE <<"m">> \o Decimal(k),
     attachments |-> <<>>, created_at |-> k + 1]

InitHistory ==
    /\ call \in [stored : StoredCounts, blanks : BOOLEAN]
    /\ ret = NoRet
    /\ conversations = <<[user_id |-> "u1", title |-> GeneratedTitle,
                          created_at |-> 1,
                          updated_at |-> call.stored + 1, live |-> TRUE]>>
    /\ messages = [k \in 1..call.stored |-> StoredMessage(k, call.blanks)]
    /\ transcripts = <<>>
    /\ documents = <<>>
    /\ now = call.stored + 2
    /\ requests = <<>>
    /\ nrequests = 0
    /\ tasks = <<>>

NextHistory ==
    \/ \E u \in Users, m \in ChatMessages : ChatBegin(u, m, Oid(1))
    \/ \E i \in DOMAIN requests : ChatHistory(i)
    \/ \E i \in DOMAIN requests : ChatAppendUser(i)
    \/ \E i \in DOMAIN requests, first \in LlmFirst, second \in LlmSecond :
          ChatAnswer(i, first, second)
    \/ \E i \in DOMAIN requests : ChatAppendAssistant(i)
    \/ \E i \in DOMAIN requests : Respond(i)

SpecHistory == InitHistory /\ [][NextHistory]_vars

----------------------------------------------------------------------------
(* Claims about the history of a chat turn *)

\* The chat requests for which the LLM was called
Asked == {i \in DOMAIN requests : requests[i].fn = "chat" /\ requests[i].llm_calls > 0}

\* The last n entries of a sequence
LastOf(seq, n) ==
    SubSeq(seq, IF Len(seq) > n THEN Len(seq) - n + 1 ELSE 1, Len(seq))

\* The messages the conversation held before the turn, those with a text
\* that is not blank, oldest first
StoredNonBlank ==
    LET NonBlank(msg) == \E j \in DOMAIN msg.text : msg.text[j] # " "
    IN  SelectSeq(SubSeq(messages, 1, call.stored), NonBlank)

\* C15: for a conversation with any number of stored messages, the history
\* handed to the LLM in a chat turn is the most recent 40 of its non-blank
\* messages, oldest first, and the new prompt follows it.
C15_AsStated ==
    \A i \in Asked :
        LET expected == LastOf(StoredNonBlank, 40)
            sent == requests[i].sent
        IN  /\ Len(sent.history) = Len(expected)
            /\ \A j \in DOMAIN sent.history :
                  /\ sent.history[j].text = expected[j].text
                  /\ sent.history[j].role = expected[j].sender
            /\ sent.user_message.question = requests[i].message

\* How often a text occurs among the texts of a sequence of records
Occurrences(seq, text) == Cardinality({j \in DOMAIN seq : seq[j].text = text})

\* The requests that have appended their user message: a chat past the
\* append, or finished with anything but the 404 of the conversation
Appended ==
    {i \in DOMAIN requests :
        /\ requests[i].fn = "chat"
        /\ \/ requests[i].pc \in {"ground", "append_assistant"}
           \/ requests[i].pc = "done" /\ requests[i].status # 404}

\* C16: the history of a chat request is read before the request's own user
\* message is appended, and the message is appended before the LLM is asked.
\* The step that reads the history stores nothing; the history never holds
\* the request's own message (it holds its text at most as often as other
\* stored messages have it); what the LLM receives holds the message as the
\* final prompt, and the message is stored by then.
C16_HistoryBeforeAppend ==
    /\ [](\A i \in DOMAIN requests :
            LET r == requests[i]
                own == IF i \in Appended THEN 1 ELSE 0
            IN  r.fn = "chat"
                  => /\ Occurrences(r.history, r.message) + own
                          <= Occurrences(messages, r.message)
                     /\ i \in Appended => Occurrences(messages, r.message) >= 1
                     /\ r.llm_calls > 0
                          => /\ i \in Appended
                             /\ Occurrences(r.sent.history, r.message) + 1
                                  <= Occurrences(messages, r.message)
                             /\ r.sent.user_message.question = r.message)
    /\ [][\A i \in DOMAIN requests :
            (/\ Len(requests') >= Len(requests)
             /\ requests[i].fn = "chat"
             /\ requests'[i].fn = "chat"
             /\ requests'[i].history # requests[i].history)
                => /\ messages' = messages
                   /\ i \notin Appended
       ]_vars

\* A turn on a conversation of two messages: the LLM got both as history
\* and the new message as prompt, and the new message is stored.
C16_Witness ==
    \E i \in Asked :
        /\ call.stored = 2
        /\ Len(requests[i].sent.history) = 2
        /\ requests[i].sent.user_message.question = <<"h", "i">>
        /\ Len(messages) >= 3
        /\ messages[3].text = <<"h", "i">>

----------------------------------------------------------------------------
(* The rendering of a transcript of several segments: the segment lists are
   drawn from a pool that holds two utterances, a segment with a blank text,
   one with a start that is no number and one without an end *)

MaxRendered == 2

SegHello ==
    [start |-> Num(0), end |-> Num(5),
     text |-> Txt(FromChars(<<"h", "e", "l", "l", "o">>))]
SegGoodbye ==
    [start |-> Num(10), end |-> Num(15),
     text |-> Txt(FromChars(<<"g", "o", "o", "d", "b", "y", "e">>))]
SegBlank ==
    [start |-> Num(5), end |-> Num(10), text |-> Txt(FromChars(<<" ", " ">>))]
SegBadStart ==
    [start |-> Bad, end |-> Num(10), text |-> Txt(FromChars(<<"h", "i">>))]
SegNoEnd ==
    [start |-> Num(10), end |-> None, text |-> Txt(FromChars(<<"h", "i">>))]

RenderPool == {SegHello, SegGoodbye, SegBlank, SegBadStart, SegNoEnd}

RenderLists == UNION {[1..n -> RenderPool] : n \in 0..MaxRendered}

RenderTimes == {None, Num(0), Num(5), Num(12)}

InitRender ==
    /\ SysIdle
    /\ call \in [segments : RenderLists, start_time : RenderTimes,
                 end_time : RenderTimes]
    /\ ret = NoRet

SpecRender == InitRender /\ [][NextWindow]_vars

----------------------------------------------------------------------------
(* Claims about the rendering *)

\* A segment with numbers for start and end and a text that is not blank
WellFormed(s) ==
    /\ s.start.k = "num"
    /\ s.end.k = "num"
    /\ s.text.k = "str"
    /\ StripStr(s.text.v) # <<>>

\* "[HH:MM:SS - HH:MM:SS] text" of a well-formed segment
ExpectedLine(s) ==
    LET Hms(t) == Clock(t \div 3600, (t % 3600) \div 60, t % 60)
    IN  Cat(FromChars(<<"[">>),
        Cat(Hms(s.start.v),
        Cat(FromChars(<<" ", "-", " ">>),
        Cat(Hms(s.end.v),
        Cat(FromChars(<<"]", " ">>), StripStr(s.text.v))))))

\* The lines of the segments in the order given, a newline between two
RECURSIVE InGivenOrder(_)
InGivenOrder(segs) ==
    IF segs = <<>> THEN <<>>
    ELSE IF Len(segs) = 1 THEN ExpectedLine(segs[1])
    ELSE Cat(InGivenOrder(SubSeq(segs, 1, Len(segs) - 1)),
             Cat(FromChars(<<"\n">>), ExpectedLine(segs[Len(segs)])))

\* "[00:00:00 - 00:00:05] hello"
HelloLine ==
    FromChars(
    <<"[", "0", "0", ":", "0", "0", ":", "0", "0", " ", "-", " ", "0",
      "0", ":", "0", "0", ":", "0", "5", "]", " ", "h", "e", "l", "l",
      "o">>)

\* "[00:00:10 - 00:00:15] goodbye"
GoodbyeLine ==
    FromChars(
    <<"[", "0", "0", ":", "0", "0", ":", "1", "0", " ", "-", " ", "0",
      "0", ":", "0", "0", ":", "1", "5", "]", " ", "g", "o", "o", "d",
      "b", "y", "e">>)

HelloThenGoodbye == Cat(HelloLine, Cat(FromChars(<<"\n">>), GoodbyeLine))

GoodbyeThenHello == Cat(GoodbyeLine, Cat(FromChars(<<"\n">>), HelloLine))

\* C24: _build_transcript_context renders each included segment as the line
\* "[HH:MM:SS - HH:MM:SS] text" and joins the lines with newlines in the
\* order of the segments given, never sorted: without a window, well-formed
\* segments give their lines in the given order; {0,5,"hello"} then
\* {10,15,"goodbye"} give "[00:00:00 - 00:00:05] hello\n[00:00:10 -
\* 00:00:15] goodbye", and the two the other way round give the lines the
\* other way round.
C24_GivenOrder ==
    (/\ ret.fn = "build"
     /\ call.start_time = None
     /\ call.end_time = None)
        => /\ (\A i \in DOMAIN call.segments : WellFormed(call.segments[i]))
                => ret.context = InGivenOrder(call.segments)
           /\ call.segments = <<SegHello, SegGoodbye>>
                => ret.context = HelloThenGoodbye
           /\ call.segments = <<SegGoodbye, SegHello>>
                => ret.context = GoodbyeThenHello

\* The later utterance was given first and is rendered first.
C24_Witness ==
    /\ ret.fn = "build"
    /\ call.start_time = None
    /\ call.end_time = None
    /\ call.segments = <<SegGoodbye, SegHello>>
    /\ ret.context = GoodbyeThenHello

\* A segment whose text is missing or blank, or whose start or end cannot be
\* coerced to a number
Malformed(s) ==
    \/ s.start.k = "bad"
    \/ s.end.k = "bad"
    \/ StripStr(TextOf(s.text)) = <<>>

\* The segments given without the malformed ones
WithoutMalformed ==
    LET Fine(s) == ~Malformed(s)
    IN  SelectSeq(call.segments, Fine)

\* C25: a malformed segment is skipped silently by the rendering of chat and
\* of media_answer and never aborts the request by itself: no rendering ends
\* in an unhandled exception, the context is the one the segments without
\* the malformed ones give, and the request fails for a lack of content only
\* if it fails without the malformed segments too.
C25_AsStated ==
    /\ ret.fn = "build"
         => ret.context = _build_transcript_context(WithoutMalformed,
                              call.start_time, call.end_time)
    /\ ret.fn = "media"
         => LET clean == MediaContext(WithoutMalformed, call.start_time,
                                      call.end_time)
            IN  /\ ret.status # "500"
                /\ ret.context = clean.context
                /\ ret.status = "400" => clean.status = "400"

\* C29: media_answer and the transcript context of chat agree on the same
\* segments and the same window: the same segments are selected, the same
\* context is rendered, and media_answer fails with "No transcript content
\* in the requested time range" exactly when the context of chat is empty.
C29_AsStated ==
    ret.fn = "media"
        => /\ ret.chosen = Chosen(call.segments, WindowStart(call.start_time),
                                  WindowEnd(call.end_time))
           /\ ret.context = _build_transcript_context(call.segments,
                                call.start_time, call.end_time)
           /\ ret.status = "400"
                <=> _build_transcript_context(call.segments, call.start_time,
                                              call.end_time) = <<>>

\* The chat requests that chose no grounding and whose message is empty or
\* whitespace only
BlankUngrounded ==
    {i \in DOMAIN requests :
        /\ requests[i].fn = "chat"
        /\ requests[i].selection = "none"
        /\ Strip(requests[i].message) = <<>>}

StoredMessageOf(c, sender, text) ==
    \E k \in DOMAIN messages :
        /\ messages[k].conversation_id = c.conv.v
        /\ messages[k].user_id = c.user_id
        /\ messages[k].sender = sender
        /\ messages[k].text = text

\* A blank ungrounded chat made no call, has the empty reply and, once it is
\* over, succeeded and left its title task if it created the conversation
BlankAnsweredEmpty ==
    \A i \in BlankUngrounded :
        LET c == requests[i]
        IN  /\ c.llm_calls = 0
            /\ c.sent = NothingSent
            /\ c.response_text = <<>>
            /\ c.pc \in {"append_assistant", "done"}
            /\ c.pc = "done"
                 => /\ c.status = 200
                    /\ c.created_new
                         => \E t \in DOMAIN tasks :
                               /\ tasks[t].conversation_id = c.conv
                               /\ tasks[t].first_user_message = c.message
                               /\ tasks[t].first_assistant_message = <<>>

\* The message that append_message stores for request c
MessageOf(c, sender, text) ==
    [user_id |-> c.user_id, conversation_id |-> c.conv.v, sender |-> sender,
     text |-> text, attachments |-> <<>>, created_at |-> now]

\* The appends of a chat with a blank message store the blank user message
\* and, for an ungrounded one, the empty assistant message
BlankMessagesStored ==
    \A i \in DOMAIN requests :
        (/\ Len(requests') = Len(requests)
         /\ requests[i].fn = "chat"
         /\ Strip(requests[i].message) = <<>>)
            => /\ (requests[i].pc = "append_user" /\ requests'[i].pc = "ground")
                    => messages' = Append(messages,
                           MessageOf(requests[i], "user", requests[i].message))
               /\ (i \in BlankUngrounded /\ requests[i].pc = "append_assistant"
                     /\ requests'[i].pc = "done")
                    => messages' = Append(messages,
                           MessageOf(requests[i], "assistant", <<>>))

\* C30: an ungrounded chat whose message is empty or whitespace only makes
\* no call of the LLM service and gets the empty string as its reply; the
\* request still succeeds: the blank user message and an empty assistant
\* message are stored and, for a conversation the request created, the title
\* task is spawned.
C30_BlankChatSucceeds ==
    /\ []BlankAnsweredEmpty
    /\ [][BlankMessagesStored]_vars

C30_Witness ==
    \E i \in BlankUngrounded :
        /\ requests[i].pc = "done"
        /\ requests[i].created_new
        /\ requests[i].message = <<" ">>
        /\ StoredMessageOf(requests[i], "user", <<" ">>)
        /\ StoredMessageOf(requests[i], "assistant", <<>>)
        /\ Len(tasks) = 1

----------------------------------------------------------------------------
(* Chat turns that fail in the try block, and the turns after them *)

FailureMessages == { <<" ">>, <<"h", "i">> }

\* No window, or one that starts after the end of the transcript
FailureStartTimes == {None, Num(MaxTime)}

\* The state after one upload of u1 was transcribed
InitFailure ==
    /\ conversations = <<>>
    /\ messages = <<>>
    /\ transcripts = <<[user_id |-> "u1",
                        segments |-> <<Utterance(0, 1, FromChars(<<"h", "i">>))>>]>>
    /\ documents = <<>>
    /\ now = 1
    /\ requests = <<>>
    /\ nrequests = 0
    /\ tasks = <<>>
    /\ call = [fn |-> "none"]
    /\ ret = NoRet

\* Chat requests of u1 with every grounding, MaxTurns of them, and the
\* title tasks
NextFailure ==
    \/ \E m \in FailureMessages, c \in ConversationIds : ChatTurn("u1", m, c)
    \/ \E i \in DOMAIN requests : ChatHistory(i)
    \/ \E i \in DOMAIN requests : ChatAppendUser(i)
    \/ \E i \in DOMAIN requests, t \in TranscriptIds, d \in DocumentIds,
          st \in FailureStartTimes, first \in LlmFirst, second \in LlmSecond :
          ChatGround(i, t, d, st, None, first, second)
    \/ \E i \in DOMAIN requests : ChatAppendAssistant(i)
    \/ \E i \in DOMAIN requests : Respond(i)
    \/ \E i \in DOMAIN tasks, o \in TitleOutcomes : TitleGenerate(i, o)
    \/ \E i \in DOMAIN tasks, db \in WriteOutcomes : TitleWrite(i, db)

SpecFailure == InitFailure /\ [][NextFailure]_vars

\* The chat requests that failed in the try block, after their user message
\* was appended
FailedAfterAppend ==
    {i \in DOMAIN requests :
        /\ requests[i].fn = "chat"
        /\ requests[i].pc = "done"
        /\ requests[i].status = 500}

\* What a failed chat request leaves behind: its user message, and the
\* conversation it created under the placeholder title, with no title task
NotRolledBack ==
    \A i \in FailedAfterAppend :
        LET c == requests[i]
        IN  /\ StoredMessageOf(c, "user", c.message)
            /\ c.response_text = <<>>
            /\ c.created_new
                 => /\ conversations[c.conv.v].live
                    /\ conversations[c.conv.v].title = "New Chat"
                    /\ \A t \in DOMAIN tasks : tasks[t].conversation_id # c.conv

\* The step in which a chat request fails stores nothing and spawns nothing
FailureStoresNothing ==
    \A i \in DOMAIN requests :
        (/\ Len(requests') = Len(requests)
         /\ requests[i].pc = "ground"
         /\ requests'[i].pc = "done")
            => /\ requests'[i].status = 500
               /\ UNCHANGED <<conversations, messages, tasks>>

\* The read of the history by request j finds the user message of every
\* failed request on the same conversation (of the blank ones too, if blanks)
HistoryHasUnanswered(blanks) ==
    \A j \in DOMAIN requests :
        (/\ Len(requests') = Len(requests)
         /\ requests[j].pc = "history"
         /\ requests'[j].pc = "append_user")
            => \A i \in FailedAfterAppend :
                  (/\ requests[i].conv = requests[j].conv
                   /\ requests[i].user_id = requests[j].user_id
                   /\ blanks \/ Strip(requests[i].message) # <<>>)
                      => \E k \in DOMAIN requests'[j].history :
                            requests'[j].history[k] =
                                [sender |-> "user", text |-> requests[i].message]

C28_AsStated ==
    \A c \in DOMAIN conversations :
        ~conversations[c].live
            => \A k \in DOMAIN messages : messages[k].conversation_id # c

\* old is the beginning of new: what was stored is stored unchanged, at its
\* place
Extends(new, old) ==
    /\ Len(new) >= Len(old)
    /\ SubSeq(new, 1, Len(old)) = old

\* The step is a delete_conversation of the caller that removed the messages
\* of one conversation, all of them the caller's, and nothing else
DeletedByOwner ==
    /\ call'.fn = "delete_conversation"
    /\ LET Removed(m) == m.conversation_id = call'.id.v
           Kept(m) == ~Removed(m)
       IN  /\ messages' = SelectSeq(messages, Kept)
           /\ \A k \in DOMAIN messages :
                 Removed(messages[k]) => messages[k].user_id = call'.user_id

\* C26: messages are append-only and transcripts and parsed documents are
\* immutable: no operation changes a stored message, transcript or parsed
\* document; messages disappear only through delete_conversation by their
\* owner, and delete_conversation leaves the transcripts and the parsed
\* documents as they are.
C26_AppendOnly ==
    [][/\ Extends(messages', messages) \/ DeletedByOwner
       /\ Extends(transcripts', transcripts)
       /\ Extends(documents', documents)
       /\ call'.fn = "delete_conversation"
            => transcripts' = transcripts /\ documents' = documents]_vars

\* The owner deleted a conversation after two messages were appended to it,
\* with a transcript and a parsed document stored.
C26_Witness ==
    /\ call.fn = "delete_conversation"
    /\ ret.ok
    /\ now = 4
    /\ messages = <<>>
    /\ Len(transcripts) = 1
    /\ Len(documents) = 1

\* A conversation that a step creates starts under the placeholder title
StartsAsNewChat ==
    \A c \in DOMAIN conversations' :
        c \notin DOMAIN conversations => conversations'[c].title = "New Chat"

\* A title changes from "New Chat" to the generated title only, in the write
\* of a title task of the conversation
ReplacedByTitleTask ==
    \A c \in DOMAIN conversations :
        conversations'[c].title # conversations[c].title
            => /\ conversations[c].title = "New Chat"
               /\ conversations'[c].title = GeneratedTitle
               /\ \E t \in DOMAIN tasks :
                     /\ tasks[t].conversation_id = Oid(c)
                     /\ tasks[t].pc = "write"
                     /\ tasks'[t].pc = "done"
                     /\ tasks'[t].modified

\* A title task is created in the step that stores the assistant reply of a
\* chat request which named no conversation and created its own
SpawnedAfterFirstReply ==
    tasks' # tasks /\ Len(tasks') # Len(tasks)
        => /\ Len(tasks') = Len(tasks) + 1
           /\ \E i \in DOMAIN requests :
                 /\ requests[i].pc = "append_assistant"
                 /\ requests'[i].pc = "done"
                 /\ requests[i].created_new
                 /\ requests[i].conversation_id = None
                 /\ tasks'[Len(tasks')].conversation_id = requests[i].conv
                 /\ messages' = Append(messages,
                        [user_id |-> requests[i].user_id,
                         conversation_id |-> requests[i].conv.v,
                         sender |-> "assistant",
                         text |-> requests[i].response_text,
                         attachments |-> <<>>, created_at |-> now])

\* No conversation has two title tasks
OneTitleTask ==
    \A t1, t2 \in DOMAIN tasks :
        tasks[t1].conversation_id = tasks[t2].conversation_id => t1 = t2

\* C23 (as amended): every conversation created by a chat request starts
\* with the title "New Chat" and has its title replaced at most once, by the
\* generated title and by its title task; the title task is spawned at most
\* once, in the step that persists the first assistant reply, only for a
\* conversation that the chat request itself created and never for a request
\* that named an existing conversation_id.
C23_TitleTaskOnce ==
    /\ []OneTitleTask
    /\ [][StartsAsNewChat /\ ReplacedByTitleTask /\ SpawnedAfterFirstReply]_vars

\* C23 as stated: the title of a conversation created by a chat request is
\* replaced by a generated title: once the request is over and no title task
\* of the conversation is still running, the title is no longer "New Chat".
C23_AsStated ==
    \A i \in DOMAIN requests :
        (/\ requests[i].fn = "chat"
         /\ requests[i].created_new
         /\ requests[i].pc = "done"
         /\ \A t \in DOMAIN tasks :
               tasks[t].conversation_id = requests[i].conv
                  => tasks[t].pc \in {"done", "logged"})
            => conversations[requests[i].conv.v].title # "New Chat"

\* The title of a conversation was replaced by its title task, and a second
\* chat request that named the conversation was answered without a task.
C23_Witness ==
    /\ Len(tasks) = 1
    /\ tasks[1].pc = "done"
    /\ tasks[1].modified
    /\ conversations[1].title = GeneratedTitle
    /\ \E j \in DOMAIN requests :
          /\ requests[j].fn = "chat"
          /\ requests[j].conversation_id = Oid(1)
          /\ requests[j].pc = "done"
          /\ requests[j].status = 200

----------------------------------------------------------------------------
(* append_message, call by call: the insert of the message and the update of
   the conversation are two awaits, and the calls of chat turns that run at
   the same time interleave between them.  (The chat actions above take the
   two writes of one call together.) *)

MaxAppends == 3

\* The state after u1 created a conversation
InitAppend ==
    /\ conversations = <<[user_id |-> "u1", title |-> "New Chat",
                          created_at |-> 1, updated_at |-> 1, live |-> TRUE]>>
    /\ messages = <<>>
    /\ transcripts = <<>>
    /\ documents = <<>>
    /\ now = 2
    /\ requests = <<>>
    /\ nrequests = 0
    /\ tasks = <<>>
    /\ call = [fn |-> "none"]
    /\ ret = NoRet

\* now = _now(); res = await _messages(db).insert_one(msg)
AppendInsert(user_id, conversation_id, sender) ==
    /\ Admit(MaxAppends)
    /\ messages' = append_message_insert(user_id, conversation_id, sender,
                                         <<"h", "i">>)
    /\ now' = now + 1
    /\ requests' = Append(requests,
            [fn |-> "append_message", user_id |-> user_id,
             conv |-> conversation_id, now |-> now, pc |-> "update_one"])
    /\ UNCHANGED <<conversations, transcripts, documents, tasks, call, ret>>

\* conversation_store.append_message: the conversations after the update_one
\* of a call that read the clock at at
append_message_update_one(user_id, conversation_id, at) ==
    [i \in DOMAIN conversations |->
        IF i = conversation_id.v /\ conversations[i].live
           /\ conversations[i].user_id = user_id
        THEN [conversations[i] EXCEPT !.updated_at = at]
        ELSE conversations[i]]

\* await _conversations(db).update_one(..., {"$set": {"updated_at": now}});
\* return msg
AppendUpdate(i) ==
    /\ requests[i].fn = "append_message"
    /\ requests[i].pc = "update_one"
    /\ conversations' = append_message_update_one(requests[i].user_id,
                            requests[i].conv, requests[i].now)
    /\ requests' = [requests EXCEPT ![i].pc = "done"]
    /\ UNCHANGED <<messages, transcripts, documents, now, nrequests, tasks,
                   call, ret>>

NextAppend ==
    \/ \E s \in {"user", "assistant"} : AppendInsert("u1", Oid(1), s)
    \/ \E i \in DOMAIN requests : AppendUpdate(i)
    \/ \E i \in DOMAIN requests : Respond(i)

SpecAppend == InitAppend /\ [][NextAppend]_vars

\* Every append_message call has returned
AppendsReturned ==
    \A i \in DOMAIN requests :
        requests[i].fn = "append_message" => requests[i].pc = "done"

\* updated_at is the created_at of the message appended last
UpdatedAtIsLatest ==
    \A c \in DOMAIN conversations :
        LET Of(m) == m.conversation_id = c
            stored == SelectSeq(messages, Of)
        IN  stored # <<>>
              => conversations[c].updated_at = stored[Len(stored)].created_at

UpdatedAtAdvances ==
    \A c \in DOMAIN conversations :
        conversations'[c].updated_at >= conversations[c].updated_at

\* C22: after any sequence of append_message calls on one conversation, two
\* chat turns racing on it included, updated_at never moves backwards and
\* equals the created_at of the latest appended message.
C22_AsStated ==
    /\ [](AppendsReturned => UpdatedAtIsLatest)
    /\ [][UpdatedAtAdvances]_vars

----------------------------------------------------------------------------
(* The cleaning of the title text in generate_chat_title, as a function of
   the text the LLM service returned *)

TitleLimit == 80

NewChatTitle == <<"N", "e", "w", " ", "C", "h", "a", "t">>

\* str.strip(chars): every leading and every trailing character of chars
StripOf(t, chars) ==
    LET inside == {i \in 1..Len(t) : t[i] \notin chars}
    IN  IF inside = {} THEN <<>>
        ELSE SubSeq(t, CHOOSE i \in inside : \A j \in inside : i <= j,
                       CHOOSE i \in inside : \A j \in inside : i >= j)

\* str.replace(old, new) for single characters
ReplaceChar(t, old, new) ==
    [i \in 1..Len(t) |-> IF t[i] = old THEN new ELSE t[i]]

\* Mutant: the title is not clamped.
CleanedTitle_Unclamped(title_text) ==
    LET unquoted == StripOf(StripOf(StripOf(title_text, WhiteSpace), {"\""}), {"'"})
        cleaned == StripOf(ReplaceChar(ReplaceChar(unquoted, "\r", " "), "\n", " "),
                           WhiteSpace)
    IN  IF cleaned = <<>> THEN NewChatTitle ELSE cleaned

\* cleaned = title_text.strip().strip('"').strip("'")
\* cleaned = cleaned.replace("\r", " ").replace("\n", " ").strip()
\* if not cleaned: return "New Chat"
\* return cleaned[:80]
CleanedTitle(title_text) ==
    LET unquoted == StripOf(StripOf(StripOf(title_text, WhiteSpace), {"\""}), {"'"})
        cleaned == StripOf(ReplaceChar(ReplaceChar(unquoted, "\r", " "), "\n", " "),
                           WhiteSpace)
    IN  IF cleaned = <<>> THEN NewChatTitle
        ELSE SubSeq(cleaned, 1, Min(TitleLimit, Len(cleaned)))

MaxRaw == 5

RawChars == {"a", " ", "\"", "'", "\n", "\r"}

Letters(n) == [i \in 1..n |-> "a"]

\* The texts of the LLM service: every text of up to MaxRaw characters, and
\* texts around the limit of 80 characters, bare, quoted, and with a space
\* at the limit
RawTitles ==
    UNION {[1..n -> RawChars] : n \in 0..MaxRaw}
      \cup {Letters(n) : n \in {TitleLimit - 1, TitleLimit, TitleLimit + 1}}
      \cup {<<"\"">> \o Letters(TitleLimit + 1) \o <<"\"">>,
            Letters(TitleLimit - 1) \o <<" ", "a">>,
            <<" ", "'">> \o Letters(TitleLimit) \o <<"'", "\n">>}

InitTitleClean ==
    /\ SysIdle
    /\ call \in [title_text : RawTitles]
    /\ ret = NoRet

CleanTitle ==
    /\ ret.fn = "none"
    /\ ret' = [fn |-> "generate_chat_title", value |-> CleanedTitle(call.title_text)]
    /\ UNCHANGED <<call, sysvars>>

NextTitleClean == CleanTitle

SpecTitleClean == InitTitleClean /\ [][NextTitleClean]_vars

\* The first place at or after p of t that holds no character of chars
\* (Len(t) + 1 if there is none)
SkipRight(t, p, chars) ==
    LET stops == {i \in p..Len(t) : t[i] \notin chars}
    IN  IF stops = {} THEN Len(t) + 1
        ELSE CHOOSE i \in stops : \A j \in stops : i <= j

\* The last place at or before p of t that holds no character of chars
\* (0 if there is none)
SkipLeft(t, p, chars) ==
    LET stops == {i \in 1..p : t[i] \notin chars}
    IN  IF stops = {} THEN 0
        ELSE CHOOSE i \in stops : \A j \in stops : i >= j

\* Where the title begins in the text: after the leading whitespace, the
\* double quotes after it, the single quotes after them, and the whitespace
\* after those
TitleBegin(t) ==
    SkipRight(t, SkipRight(t, SkipRight(t, SkipRight(t, 1, WhiteSpace),
                                        {"\""}), {"'"}), WhiteSpace)

\* Where the title ends in the text, likewise from the right
TitleEnd(t) ==
    SkipLeft(t, SkipLeft(t, SkipLeft(t, SkipLeft(t, Len(t), WhiteSpace),
                                     {"\""}), {"'"}), WhiteSpace)

\* The characters of t from a to b, newlines and carriage returns as
\* spaces, at most TitleLimit of them
ClampedSpan(t, a, b) ==
    [i \in 1..Min(TitleLimit, b - a + 1) |->
        IF t[a + i - 1] \in {"\n", "\r"} THEN " " ELSE t[a + i - 1]]

\* C21 (as amended): the title returned by generate_chat_title is the LLM's
\* text without its surrounding whitespace, without every double quote and
\* then every single quote that surrounds it, and without the whitespace
\* those quotes enclosed, with embedded newlines and carriage returns
\* replaced by spaces, clamped to 80 characters; the result is never longer
\* than 80 characters and never empty (an empty cleaned text yields
\* "New Chat").
C21_CleanedTitle ==
    ret.fn = "generate_chat_title"
        => LET t == call.title_text
               a == TitleBegin(t)
               b == TitleEnd(t)
           IN  /\ Len(ret.value) <= TitleLimit
               /\ ret.value # <<>>
               /\ \A i \in DOMAIN ret.value : ret.value[i] \notin {"\n", "\r"}
               /\ ret.value = IF a > b THEN NewChatTitle ELSE ClampedSpan(t, a, b)

\* A single layer of surrounding quote characters: the first and the last
\* character, when they are the same quote character
StripOneLayer(t) ==
    IF Len(t) >= 2 /\ t[1] \in {"\"", "'"} /\ t[Len(t)] = t[1]
    THEN SubSeq(t, 2, Len(t) - 1)
    ELSE t

\* C21 as stated: the title is the LLM's text with surrounding whitespace
\* stripped, a single layer of surrounding quote characters stripped,
\* embedded newlines and carriage returns replaced by spaces, and clamped to
\* 80 characters; never empty.
C21_AsStated ==
    ret.fn = "generate_chat_title"
        => LET unquoted == StripOneLayer(Strip(call.title_text))
               spaced == ReplaceChar(ReplaceChar(unquoted, "\r", " "), "\n", " ")
               clamped == SubSeq(spaced, 1, Min(TitleLimit, Len(spaced)))
           IN  ret.value = IF clamped = <<>> THEN NewChatTitle ELSE clamped

\* A quoted text of 83 characters was cleaned and clamped to 80.
C21_Witness ==
    /\ ret.fn = "generate_chat_title"
    /\ call.title_text = <<"\"">> \o Letters(TitleLimit + 1) \o <<"\"">>
    /\ ret.value = Letters(TitleLimit)

============================================================================
